---- MODULE Spec2Model ----
(***************************************************************************)
(* findYourDinner: the workbook-internals parser (XMLParser) that walks    *)
(* workbook -> worksheet -> drawing -> media inside an .xlsx package and   *)
(* builds the sheet name -> [{path, transform}] mapping; the recipe        *)
(* generator (RecipeGenerator.loadExcelFile) that assembles the recipe     *)
(* list and stores the images; and the image store (ImageStore.saveImage). *)
(*                                                                         *)
(* Strings are sequences of tokens (small strings), so that includes(),    *)
(* replace() and concatenation are computed the way the code computes      *)
(* them.  An XML file is the sequence of elements its DOM exposes, in      *)
(* document order.  DOMParser.parseFromString never throws: of an          *)
(* ill-formed text the DOM exposes whatever elements the platform's parser *)
(* recovered (none, or those read before the error).                       *)
(***************************************************************************)
EXTENDS Integers, Sequences, FiniteSets, TLC

VARIABLES
    zip,          \* the package: path -> file, for the entries that exist
    pc,           \* position of createSheetImageMapping
    sheets,       \* const sheets = extractSheetInfo(workbookXML)
    sheetPos,     \* position of the for..of loop in sheets (1-based)
    drawingPath,  \* const drawingPath of the current iteration
    drawingXML,   \* const drawingXML of the current iteration
    mapping,      \* const mapping = {}
    caught,       \* the catch block of createSheetImageMapping ran
    ret,          \* what the call gave its caller: <<>> or <<[threw, value]>>
    lookups,      \* the paths passed to zip.file(), in call order
    writes,       \* the assignments of mapping[sheet.name]: [pos, drawing]
    first,        \* what an earlier call on this package gave: <<>> or <<[ret, keys]>>
    picXML,       \* extractImageTransforms alone: its drawingXML argument
    picCount,     \* ... its imageCount argument
    transforms,   \* ... what it returned: <<>> (not called yet) or <<array>>
    store,        \* ImageStore: the records of the object store, by recipeName
    db,           \* ImageStore: this.db is set
    opens,        \* the platform: indexedDB.open succeeds
    saves,        \* the calls of saveImage: caller -> position, arguments, outcome
    requests,     \* the put requests not yet carried out, in transaction order
    puts,         \* the callers whose records were written, in the order of writing
    version,      \* which XMLParser the page loads: "part_000" or "part_001"
    excelFile,    \* the file given to loadExcelFile, as SheetJS reads it
    enabled,      \* typeof JSZip !== 'undefined' && this.imageStore
    lpc,          \* position of loadExcelFile
    recipes,      \* this.recipes
    hasImages,    \* this.hasImages
    loaded,       \* what loadExcelFile gave its caller: <<>> or <<[threw, value]>>
    entryPos,     \* position of the loop over Object.entries(mapping) (1-based)
    imagePos,     \* position of the loop over imagePaths (1-based)
    imageBlobs,   \* const imageBlobs of the current entry
    failures,     \* the recipe names whose catch block in the loop ran, in order
    imported,     \* what the imports before this one left: [store, mapped, value]
    lpc2,         \* position of a second loadExcelFile call that overlaps
    excelFile2,   \* the file given to the second call, as SheetJS reads it
    loaded2,      \* what the second call gave its caller: <<>> or <<[threw, value]>>
    localStorage, \* the keys localStorage holds
    cpc,          \* position of clearAllData
    clears,       \* the platform: the clear request on the object store succeeds
    urls,         \* what getAllImageDataURLs gave: <<>> or <<[recipeName, value]>>
    givenPath,    \* getFileExtension and getMimeType alone: the path given
    mimeType      \* ... the MIME type they gave: <<>> (not called yet) or <<type>>

\* createSheetImageMapping and what is observed of it
parserVars == <<zip, pc, sheets, sheetPos, drawingPath, drawingXML, mapping,
                caught, ret, lookups, writes>>

\* a call of extractImageTransforms on its own
transformVars == <<picXML, picCount, transforms>>

\* ImageStore and the calls of saveImage
storeVars == <<store, db, opens, saves, requests, puts>>

\* RecipeGenerator.loadExcelFile and its surroundings
loadVars == <<version, excelFile, enabled, lpc, recipes, hasImages, loaded,
              entryPos, imagePos, imageBlobs, failures, imported>>

\* a second call of loadExcelFile on the same RecipeGenerator
secondVars == <<lpc2, excelFile2, loaded2>>

\* RecipeGenerator.clearAllData and localStorage
clearVars == <<localStorage, cpc, clears>>

\* a call of getFileExtension and getMimeType on their own
mimeVars == <<givenPath, mimeType>>

\* what else happens on the page
pageVars == <<secondVars, clearVars, urls, mimeVars>>

\* what createSheetImageMapping and its caller do not touch
otherVars == <<transformVars, storeVars, loadVars, pageVars>>

\* what lies outside one call of createSheetImageMapping
outerVars == <<first, otherVars>>

vars == <<parserVars, outerVars>>

(***************************************************************************)
(* Bounds of the model.                                                    *)
(***************************************************************************)
MaxSheets == 2       \* worksheets in the manifest (one more where names are shared)
MaxRels == 3         \* relationships in a worksheet's relationship file
MaxImageRels == 2    \* relationships in a drawing's relationship file
MaxPics == 2         \* picture elements in a drawing

(***************************************************************************)
(* JavaScript values.                                                      *)
(***************************************************************************)
\* null, as a string-typed value no string equals
Null == <<"\\null">>

\* undefined, as a record no transform equals
Undefined == [undefined |-> TRUE]

\* JS truthiness of a string-or-null value: null and "" are falsy
Truthy(s) == s # Null /\ s # <<>>

\* String.prototype.indexOf on token sequences, 1-based, 0 when not found
IndexOf(s, pat) ==
    LET hits == {i \in 1..(Len(s) - Len(pat) + 1) :
                    SubSeq(s, i, i + Len(pat) - 1) = pat}
    IN  IF hits = {} THEN 0 ELSE CHOOSE i \in hits : \A j \in hits : i <= j

\* String.prototype.includes
Includes(s, pat) == IndexOf(s, pat) # 0

\* String.prototype.replace with a string pattern: the first occurrence only
Replace(s, pat, rep) ==
    LET i == IndexOf(s, pat)
    IN  IF i = 0 THEN s
        ELSE SubSeq(s, 1, i - 1) \o rep \o SubSeq(s, i + Len(pat), Len(s))

(***************************************************************************)
(* Numbers: exact fractions [n, d] in lowest terms, and NaN.               *)
(***************************************************************************)
NaN == [nan |-> TRUE]

RECURSIVE GCD(_, _)
GCD(a, b) == IF b = 0 THEN a ELSE GCD(b, a % b)

Abs(a) == IF a < 0 THEN -a ELSE a

Frac(n, d) ==
    LET g == GCD(Abs(n), d) IN [n |-> n \div g, d |-> d \div g]

Num(k) == Frac(k, 1)

\* x / k for a positive integer k
DivBy(x, k) == IF x = NaN THEN NaN ELSE Frac(x.n, x.d * k)

\* parseInt of an attribute value: [int |-> k] is the decimal text of k,
\* anything else is text parseInt reads no number from
ParseInt(raw) == IF "int" \in DOMAIN raw THEN Num(raw.int) ELSE NaN

(***************************************************************************)
(* The DOM.  A file of the package is [status, elems]: status "ok" (well-  *)
(* formed), "malformed" (elems are what the parser recovered) or           *)
(* "unreadable" (async('text') rejects).  An element is a record with a    *)
(* tag and its attributes; getAttribute gives Null for a missing one.      *)
(***************************************************************************)
parseXML(file) == file.elems

getElementsByTagName(doc, tag) == SelectSeq(doc, LAMBDA e : e.tag = tag)

\* a set of attributes: name -> raw value, for the names that are present
hasAttribute(el, a) == a \in DOMAIN el

\* imageTransforms[index] of a JS array (0-based index): undefined past the end
ArrayAt(arr, index) ==
    IF index + 1 \in DOMAIN arr THEN arr[index + 1] ELSE Undefined

\* a || b for objects: undefined is falsy, an object is truthy
OrElse(a, b) == IF a = Undefined THEN b ELSE a

(***************************************************************************)
(* XMLParser                                                               *)
(***************************************************************************)
getDefaultTransform ==
    [rotation |-> Num(0), flipH |-> FALSE, flipV |-> FALSE,
     crop |-> [left |-> Num(0), top |-> Num(0),
               right |-> Num(0), bottom |-> Num(0)]]

\* a faulty extractSheetInfo: the index taken from the sheetId attribute
extractSheetInfo_BySheetId(workbookXML) ==
    LET sheetEls == getElementsByTagName(parseXML(workbookXML), "sheet")
    IN  [i \in 1..Len(sheetEls) |->
            [name    |-> sheetEls[i].name,
             sheetId |-> sheetEls[i].sheetId,
             rId     |-> sheetEls[i].rId,
             index   |-> sheetEls[i].sheetId]]

extractSheetInfo(workbookXML) ==
    LET sheetEls == getElementsByTagName(parseXML(workbookXML), "sheet")
    IN  [i \in 1..Len(sheetEls) |->
            [name    |-> sheetEls[i].name,
             sheetId |-> sheetEls[i].sheetId,
             rId     |-> sheetEls[i].rId,
             index   |-> i]]

\* 'xl/' + target.replace('../', '')
ToPackagePath(target) == <<"xl", "/">> \o Replace(target, <<"..", "/">>, <<>>)

RECURSIVE DrawingPathFrom(_, _)
DrawingPathFrom(relationships, i) ==
    IF i > Len(relationships) THEN Null
    ELSE LET target == relationships[i].Target
         IN  IF Truthy(target) /\ Includes(target, <<"drawing">>)
             THEN ToPackagePath(target)
             ELSE DrawingPathFrom(relationships, i + 1)

\* the mutant of extractDrawingPath: the last qualifying relationship wins
RECURSIVE LastDrawingPathFrom(_, _)
LastDrawingPathFrom(relationships, i) ==
    IF i < 1 THEN Null
    ELSE LET target == relationships[i].Target
         IN  IF Truthy(target) /\ Includes(target, <<"drawing">>)
             THEN ToPackagePath(target)
             ELSE LastDrawingPathFrom(relationships, i - 1)

extractDrawingPath_Last(relsXML) ==
    LET relationships == getElementsByTagName(parseXML(relsXML), "Relationship")
    IN  LastDrawingPathFrom(relationships, Len(relationships))

extractDrawingPath(relsXML) ==
    DrawingPathFrom(getElementsByTagName(parseXML(relsXML), "Relationship"), 1)

\* a faulty condition: the declared type is not looked at
IsImageRel_TargetOnly(rel) ==
    /\ Truthy(rel.Target)
    /\ Includes(rel.Target, <<"image">>)

\* the condition of extractImagePaths on one relationship
IsImageRel(rel) ==
    /\ Truthy(rel.Target)
    /\ \/ Includes(rel.Target, <<"image">>)
       \/ Truthy(rel.Type) /\ Includes(rel.Type, <<"image">>)

RECURSIVE ImagePathsFrom(_, _)
ImagePathsFrom(relationships, i) ==
    IF i > Len(relationships) THEN <<>>
    ELSE IF IsImageRel(relationships[i])
         THEN <<ToPackagePath(relationships[i].Target)>>
                  \o ImagePathsFrom(relationships, i + 1)
         ELSE ImagePathsFrom(relationships, i + 1)

extractImagePaths(drawingRelsXML) ==
    ImagePathsFrom(
        getElementsByTagName(parseXML(drawingRelsXML), "Relationship"), 1)

\* A picture element: spPr and blipFill are <<>> (no such child) or <<el>>;
\* spPr.xfrm and blipFill.srcRect are <<>> or <<attributes>>.  A child slot
\* holding Throws stands for a DOM call that throws when the child is asked
\* for.
Throws == <<[throws |-> TRUE]>>

\* a faulty conversion: hundredths instead of thousandths of a percent
Crop_Hundredths(srcRect, a, old) ==
    IF hasAttribute(srcRect, a) THEN DivBy(ParseInt(srcRect[a]), 100) ELSE old

Crop(srcRect, a, old) ==
    IF hasAttribute(srcRect, a) THEN DivBy(ParseInt(srcRect[a]), 1000) ELSE old

\* the transform object is filled in place inside try { }; the catch block
\* only warns, and what was filled in so far is returned
extractSingleImageTransform(picElement) ==
    LET d     == getDefaultTransform
        thrownAtShape ==
            \/ picElement.spPr = Throws
            \/ (picElement.spPr # <<>> /\ picElement.spPr[1].xfrm = Throws)
        xfrm  == IF picElement.spPr # <<>> THEN picElement.spPr[1].xfrm ELSE <<>>
        x     == xfrm[1]
        rot   == IF xfrm # <<>> /\ hasAttribute(x, "rot")
                 THEN DivBy(ParseInt(x.rot), 60000) ELSE d.rotation
        fH    == IF xfrm # <<>> /\ hasAttribute(x, "flipH")
                 THEN x.flipH = "1" ELSE d.flipH
        fV    == IF xfrm # <<>> /\ hasAttribute(x, "flipV")
                 THEN x.flipV = "1" ELSE d.flipV
        shaped == [rotation |-> rot, flipH |-> fH, flipV |-> fV, crop |-> d.crop]
        thrownAtFill ==
            \/ picElement.blipFill = Throws
            \/ (picElement.blipFill # <<>> /\ picElement.blipFill[1].srcRect = Throws)
        rect  == IF picElement.blipFill # <<>>
                 THEN picElement.blipFill[1].srcRect ELSE <<>>
        r     == rect[1]
        crop  == IF rect # <<>> /\ DOMAIN r # {}
                 THEN [left   |-> Crop(r, "l", d.crop.left),
                       top    |-> Crop(r, "t", d.crop.top),
                       right  |-> Crop(r, "r", d.crop.right),
                       bottom |-> Crop(r, "b", d.crop.bottom)]
                 ELSE d.crop
    IN  IF thrownAtShape THEN d
        ELSE IF thrownAtFill THEN shaped
        ELSE [shaped EXCEPT !.crop = crop]

extractImageTransforms(xml, imageCount) ==
    LET pics == getElementsByTagName(parseXML(xml), "xdr:pic")
        n    == IF Len(pics) < imageCount THEN Len(pics) ELSE imageCount
    IN  [i \in 1..n |-> extractSingleImageTransform(pics[i])]

\* a faulty map callback: no fallback to the default transform
CombineEntry_NoDefault(imagePaths, imageTransforms, index) ==
    [path      |-> imagePaths[index + 1],
     transform |-> ArrayAt(imageTransforms, index)]

\* imagePaths.map((path, index) => ({path, transform: ... || default}))
CombineEntry(imagePaths, imageTransforms, index) ==
    [path      |-> imagePaths[index + 1],
     transform |-> OrElse(ArrayAt(imageTransforms, index), getDefaultTransform)]

Combine(imagePaths, imageTransforms) ==
    [k \in 1..Len(imagePaths) |->
        CombineEntry(imagePaths, imageTransforms, k - 1)]

\* mapping[name] = value on a plain object
Assign(obj, name, value) ==
    [k \in DOMAIN obj \cup {name} |-> IF k = name THEN value ELSE obj[k]]

\* a faulty step 7: the assignment without its length test
Record_Always(obj, name, imagePaths, imageTransforms) ==
    Assign(obj, name, Combine(imagePaths, imageTransforms))

\* step 7: if (imagePaths.length > 0) mapping[sheet.name] = ...
Record(obj, name, imagePaths, imageTransforms) ==
    IF Len(imagePaths) > 0
    THEN Assign(obj, name, Combine(imagePaths, imageTransforms))
    ELSE obj

(***************************************************************************)
(* Package paths                                                           *)
(***************************************************************************)
WorkbookPath == <<"xl", "/", "workbook", ".xml">>

\* `xl/worksheets/_rels/sheet${sheetIndex}.xml.rels`
RelsPath(sheetIndex) ==
    <<"xl", "/", "worksheets", "/", "_rels", "/", "sheet",
      ToString(sheetIndex), ".xml", ".rels">>

\* a faulty step 5: the relationship file of drawing 1, whatever the drawing
DrawingRelsPath_OfFirst(path) ==
    <<"xl", "/", "drawing", "s", "/", "_rels", "/", "drawing", "1", ".xml", ".rels">>

\* drawingPath.replace('/drawings/', '/drawings/_rels/') + '.rels'
DrawingRelsPath(path) ==
    Replace(path, <<"/", "drawing", "s", "/">>,
                  <<"/", "drawing", "s", "/", "_rels", "/">>) \o <<".rels">>

\* zip.file(path): the entry, or null
HasFile(path) == path \in DOMAIN zip

(***************************************************************************)
(* createSheetImageMapping(zip), one action per stretch of code between    *)
(* two awaits.                                                             *)
(***************************************************************************)
\* catch (error) { console.error(...) } and then return mapping, which is m
CatchReturning(m) ==
    /\ caught' = TRUE
    /\ pc' = "done"
    /\ ret' = <<[threw |-> FALSE, value |-> m]>>

Catch == CatchReturning(mapping)

\* a faulty continue: break, the loop is left
Continue_Break ==
    /\ sheetPos' = Len(sheets) + 1
    /\ pc' = "loop"
    /\ drawingPath' = Null
    /\ drawingXML' = <<>>

\* continue: on to the next worksheet
Continue ==
    /\ sheetPos' = sheetPos + 1
    /\ pc' = "loop"
    /\ drawingPath' = Null
    /\ drawingXML' = <<>>

\* line 92-96: const mapping = {}, then
\* zip.file('xl/workbook.xml').async('text'); a missing entry makes
\* zip.file() null and the call on it a TypeError inside the try
Call ==
    /\ pc = "start"
    /\ mapping' = <<>>
    /\ lookups' = Append(lookups, WorkbookPath)
    /\ IF HasFile(WorkbookPath)
       THEN pc' = "awaitWorkbook" /\ UNCHANGED <<caught, ret>>
       ELSE CatchReturning(<<>>)
    /\ UNCHANGED <<zip, sheets, sheetPos, drawingPath, drawingXML, writes>>
    /\ UNCHANGED outerVars

\* a faulty loop: its cursor outlives the call and is set only when unset
WorkbookRead_Resume ==
    /\ pc = "awaitWorkbook"
    /\ zip[WorkbookPath].status # "unreadable"
    /\ sheets' = extractSheetInfo(zip[WorkbookPath])
    /\ sheetPos' = IF sheetPos = 0 THEN 1 ELSE sheetPos
    /\ pc' = "loop"
    /\ UNCHANGED <<zip, drawingPath, drawingXML, mapping, caught, ret,
                   lookups, writes>>
    /\ UNCHANGED outerVars

\* line 96-97: the manifest text arrives
WorkbookRead ==
    /\ pc = "awaitWorkbook"
    /\ zip[WorkbookPath].status # "unreadable"
    /\ sheets' = extractSheetInfo(zip[WorkbookPath])
    /\ sheetPos' = 1
    /\ pc' = "loop"
    /\ UNCHANGED <<zip, drawingPath, drawingXML, mapping, caught, ret,
                   lookups, writes>>
    /\ UNCHANGED outerVars

\* line 100-106: the head of one iteration
SheetStart ==
    /\ pc = "loop"
    /\ sheetPos <= Len(sheets)
    /\ LET relsPath == RelsPath(sheets[sheetPos].index)
       IN  /\ lookups' = Append(lookups, relsPath)
           /\ IF HasFile(relsPath)
              THEN pc' = "awaitRels" /\ UNCHANGED <<sheetPos, drawingPath, drawingXML>>
              ELSE Continue
    /\ UNCHANGED <<zip, sheets, mapping, caught, ret, writes>>
    /\ UNCHANGED outerVars

\* line 109-118: the worksheet's relationship text arrives
RelsRead ==
    /\ pc = "awaitRels"
    /\ LET relsFile == zip[RelsPath(sheets[sheetPos].index)]
           path     == extractDrawingPath(relsFile)
       IN  /\ relsFile.status # "unreadable"
           /\ IF ~Truthy(path)
              THEN Continue /\ UNCHANGED lookups
              ELSE /\ lookups' = Append(lookups, path)
                   /\ IF HasFile(path)
                      THEN /\ pc' = "awaitDrawing"
                           /\ drawingPath' = path
                           /\ UNCHANGED <<sheetPos, drawingXML>>
                      ELSE Continue
    /\ UNCHANGED <<zip, sheets, mapping, caught, ret, writes>>
    /\ UNCHANGED outerVars

\* line 118-126: the drawing text arrives
DrawingRead ==
    /\ pc = "awaitDrawing"
    /\ zip[drawingPath].status # "unreadable"
    /\ LET drawingRelsPath == DrawingRelsPath(drawingPath)
       IN  /\ lookups' = Append(lookups, drawingRelsPath)
           /\ IF HasFile(drawingRelsPath)
              THEN /\ pc' = "awaitDrawingRels"
                   /\ drawingXML' = <<zip[drawingPath]>>
                   /\ UNCHANGED <<sheetPos, drawingPath>>
              ELSE Continue
    /\ UNCHANGED <<zip, sheets, mapping, caught, ret, writes>>
    /\ UNCHANGED outerVars

\* line 126-139: the drawing's relationship text arrives
DrawingRelsRead ==
    /\ pc = "awaitDrawingRels"
    /\ LET drawingRelsFile == zip[DrawingRelsPath(drawingPath)]
           imagePaths      == extractImagePaths(drawingRelsFile)
           imageTransforms == extractImageTransforms(drawingXML[1], Len(imagePaths))
       IN  /\ drawingRelsFile.status # "unreadable"
           /\ mapping' = Record(mapping, sheets[sheetPos].name,
                                imagePaths, imageTransforms)
           /\ writes' = IF mapping' # mapping \/ Len(imagePaths) > 0
                        THEN Append(writes, [pos |-> sheetPos, drawing |-> drawingPath])
                        ELSE writes
    /\ Continue
    /\ UNCHANGED <<zip, sheets, caught, ret, lookups>>
    /\ UNCHANGED outerVars

\* an awaited async('text') rejects: control goes to the catch block
ReadRejected ==
    /\ pc \in {"awaitWorkbook", "awaitRels", "awaitDrawing", "awaitDrawingRels"}
    /\ LET path == CASE pc = "awaitWorkbook"    -> WorkbookPath
                     [] pc = "awaitRels"        -> RelsPath(sheets[sheetPos].index)
                     [] pc = "awaitDrawing"     -> drawingPath
                     [] pc = "awaitDrawingRels" -> DrawingRelsPath(drawingPath)
       IN  zip[path].status = "unreadable"
    /\ Catch
    /\ UNCHANGED <<zip, sheets, sheetPos, drawingPath, drawingXML, mapping,
                   lookups, writes>>
    /\ UNCHANGED outerVars

\* line 145: the loop is exhausted, return mapping
Return ==
    /\ pc = "loop"
    /\ sheetPos > Len(sheets)
    /\ pc' = "done"
    /\ ret' = <<[threw |-> FALSE, value |-> mapping]>>
    /\ UNCHANGED <<zip, sheets, sheetPos, drawingPath, drawingXML, mapping,
                   caught, lookups, writes>>
    /\ UNCHANGED outerVars

Next ==
    \/ Call
    \/ WorkbookRead
    \/ SheetStart
    \/ RelsRead
    \/ DrawingRead
    \/ DrawingRelsRead
    \/ ReadRejected
    \/ Return

(***************************************************************************)
(* Packages.  The entries are written with their literal package paths.    *)
(***************************************************************************)
File(status, elems) == [status |-> status, elems |-> elems]

Sheet(name, sheetId, rId) ==
    [tag |-> "sheet", name |-> name, sheetId |-> sheetId, rId |-> rId]

Rel(id, target, type) ==
    [tag |-> "Relationship", Id |-> id, Target |-> target, Type |-> type]

\* <xdr:pic> showing the image of relationship `embed`; xfrm and srcRect are
\* <<>> (no such element) or <<attributes>>
Pic(embed, xfrm, srcRect) ==
    [tag      |-> "xdr:pic",
     spPr     |-> <<[xfrm |-> xfrm]>>,
     blipFill |-> <<[embed |-> embed, srcRect |-> srcRect]>>]

RelType(kind) ==
    <<"http://schemas.openxmlformats.org/officeDocument/2006/relationships/", kind>>

DrawingTarget(k) == <<"..", "/", "drawing", "s", "/", "drawing", ToString(k), ".xml">>
ImageTarget(k)   == <<"..", "/", "media", "/", "image", ToString(k), ".png">>
PhotoTarget      == <<"..", "/", "media", "/", "photo", ".jpeg">>
PrinterTarget    == <<"..", "/", "printerSettings", "/", "printerSettings", ".bin">>
ChartTarget      == <<"..", "/", "charts", "/", "chart", ".xml">>
\* a drawing part kept in a directory that is not named drawings
ArtDrawingTarget == <<"..", "/", "art", "/", "drawing", "9", ".xml">>

DrawingEntry(k) == <<"xl", "/", "drawing", "s", "/", "drawing", ToString(k), ".xml">>
DrawingRelsEntry(k) ==
    <<"xl", "/", "drawing", "s", "/", "_rels", "/", "drawing", ToString(k),
      ".xml", ".rels">>
SheetRelsEntry(k) ==
    <<"xl", "/", "worksheets", "/", "_rels", "/", "sheet", ToString(k),
      ".xml", ".rels">>
ImageEntry(k) == <<"xl", "/", "media", "/", "image", ToString(k), ".png">>
ArtDrawingEntry     == <<"xl", "/", "art", "/", "drawing", "9", ".xml">>
ArtDrawingRelsEntry == <<"xl", "/", "art", "/", "_rels", "/", "drawing", "9", ".xml", ".rels">>
PhotoEntry    == <<"xl", "/", "media", "/", "photo", ".jpeg">>

\* the relationships a worksheet's relationship file is made of
RelPrinter    == Rel("rId1", PrinterTarget, RelType("printerSettings"))
RelDrawing(k) == Rel("rId2", DrawingTarget(k), RelType("drawing"))
RelUntargeted == Rel("rId3", Null, RelType("drawing"))
RelDrawingElsewhere == Rel("rId4", ArtDrawingTarget, RelType("drawing"))
SheetRelUniverse ==
    {RelPrinter, RelDrawing(1), RelDrawing(2), RelUntargeted, RelDrawingElsewhere}

\* the relationships a drawing's relationship file is made of
RelImage(k)  == Rel(<<"rId", ToString(k)>>, ImageTarget(k), RelType("image"))
RelPhoto     == Rel(<<"rId", "3">>, PhotoTarget, RelType("image"))
RelChart     == Rel(<<"rId", "4">>, ChartTarget, RelType("chart"))
\* an image target without a Type attribute, an image type without a Target
RelUntypedImage    == Rel(<<"rId", "5">>, ImageTarget(1), Null)
RelUntargetedImage == Rel(<<"rId", "6">>, Null, RelType("image"))
ImageRelUniverse ==
    {RelImage(1), RelImage(2), RelPhoto, RelChart,
     RelUntypedImage, RelUntargetedImage}

\* picture elements
PicRotatedCropped ==
    Pic(<<"rId", "1">>, <<[rot |-> [int |-> 5400000]]>>, <<[l |-> [int |-> 10000]]>>)
PicPlain   == Pic(<<"rId", "2">>, <<>>, <<>>)
PicFlipped == Pic(<<"rId", "3">>, <<[flipH |-> "1", flipV |-> "0"]>>, <<>>)
PicUniverse == {PicRotatedCropped, PicPlain, PicFlipped}

SeqsUpTo(S, n) == UNION {[1..k -> S] : k \in 0..n}

\* a package from a set of <<path, <<file>> or <<>> >> pairs
MakeZip(pairs) ==
    LET present == {e \in pairs : e[2] # <<>>}
    IN  [p \in {e[1] : e \in present} |->
            (CHOOSE e \in present : e[1] = p)[2][1]]

\* the manifest of the named worksheets, with sheetId = position + shift
Manifest(status, names, shift) ==
    File(status, [i \in 1..Len(names) |->
                    Sheet(names[i], i + shift, <<"rId", ToString(i)>>)])

SheetNames == {"A", "B"}

GoodDrawing(k)     == File("ok", <<PicRotatedCropped, PicPlain>>)
GoodDrawingRels(k) == File("ok", <<RelImage(1), RelImage(2)>>)

MediaPairs ==
    {<<ImageEntry(1), <<File("ok", <<>>)>>>>,
     <<ImageEntry(2), <<File("ok", <<>>)>>>>,
     <<PhotoEntry, <<File("ok", <<>>)>>>>}

\* packages that differ in which entries exist, are readable, are well-formed
\* worksheet name lists; the first worksheet is "A"
NameLists == {names \in SeqsUpTo(SheetNames, MaxSheets) \ {<<>>} : names[1] = "A"}

ManifestChoices ==
    {<<>>, <<File("unreadable", <<>>)>>}
    \cup {<<Manifest("ok", names, shift)>> : names \in NameLists, shift \in {0, 1}}
    \cup {<<Manifest("malformed", names, 0)>> : names \in NameLists}

SheetRelsChoices ==
    {<<>>, <<File("unreadable", <<>>)>>,
     <<File("ok", <<RelPrinter>>)>>,
     <<File("ok", <<RelDrawing(1)>>)>>,
     <<File("ok", <<RelPrinter, RelDrawing(2), RelDrawing(1)>>)>>,
     <<File("malformed", <<>>)>>,
     <<File("malformed", <<RelDrawing(1)>>)>>}

\* drawing 1 and its relationship file: <<drawing, relationships>>
DrawingChoices ==
    {<<<<>>, <<GoodDrawingRels(1)>>>>,
     <<<<File("unreadable", <<>>)>>, <<GoodDrawingRels(1)>>>>,
     <<<<GoodDrawing(1)>>, <<>>>>,
     <<<<GoodDrawing(1)>>, <<File("unreadable", <<>>)>>>>,
     <<<<GoodDrawing(1)>>, <<GoodDrawingRels(1)>>>>}

StructurePackages ==
    {MakeZip({<<WorkbookPath, m>>,
              <<DrawingEntry(1), d[1]>>, <<DrawingRelsEntry(1), d[2]>>,
              <<DrawingEntry(2), <<File("ok", <<PicFlipped>>)>>>>,
              <<DrawingRelsEntry(2), <<File("ok", <<RelPhoto>>)>>>>}
             \cup {<<SheetRelsEntry(k), sr[k]>> : k \in 1..MaxSheets}
             \cup MediaPairs) :
        m \in ManifestChoices,
        sr \in [1..MaxSheets -> SheetRelsChoices],
        d \in DrawingChoices}

\* packages that differ in the relationship list of worksheet 1
SheetRelsPackages ==
    {MakeZip({<<WorkbookPath, <<Manifest("ok", <<"A">>, 0)>>>>,
              <<SheetRelsEntry(1), <<File("ok", rels)>>>>,
              <<DrawingEntry(1), <<GoodDrawing(1)>>>>,
              <<DrawingRelsEntry(1), <<GoodDrawingRels(1)>>>>,
              <<DrawingEntry(2), <<File("ok", <<PicFlipped>>)>>>>,
              <<DrawingRelsEntry(2), <<File("ok", <<RelPhoto>>)>>>>,
              <<ArtDrawingEntry, <<File("ok", <<PicPlain>>)>>>>,
              <<ArtDrawingRelsEntry, <<File("ok", <<RelImage(2)>>)>>>>}
             \cup MediaPairs) :
        rels \in SeqsUpTo(SheetRelUniverse, MaxRels)}

\* packages that differ in the drawing of worksheet 1: its picture elements
\* and its relationship list
DrawingPackages ==
    {MakeZip({<<WorkbookPath, <<Manifest("ok", <<"A">>, 0)>>>>,
              <<SheetRelsEntry(1), <<File("ok", <<RelDrawing(1)>>)>>>>,
              <<DrawingEntry(1), <<File("ok", pics)>>>>,
              <<DrawingRelsEntry(1), <<File("ok", rels)>>>>}
             \cup MediaPairs) :
        pics \in SeqsUpTo(PicUniverse, MaxPics),
        rels \in SeqsUpTo(ImageRelUniverse, MaxImageRels)}

\* packages of one worksheet more, in which worksheets may share a name:
\* each worksheet has no drawing, drawing 1, drawing 2, or an unreadable
\* relationship file
SharedNameChoices ==
    {File("ok", <<RelPrinter>>),
     File("ok", <<RelDrawing(1)>>),
     File("ok", <<RelPrinter, RelDrawing(2), RelDrawing(1)>>),
     File("unreadable", <<>>)}

SharedNamePackages ==
    {MakeZip({<<WorkbookPath, <<Manifest("ok", names, 0)>>>>,
              <<DrawingEntry(1), <<GoodDrawing(1)>>>>,
              <<DrawingRelsEntry(1), <<GoodDrawingRels(1)>>>>,
              <<DrawingEntry(2), <<File("ok", <<PicFlipped>>)>>>>,
              <<DrawingRelsEntry(2), <<File("ok", <<RelPhoto>>)>>>>}
             \cup {<<SheetRelsEntry(k), <<sr[k]>>>> : k \in 1..(MaxSheets + 1)}
             \cup MediaPairs) :
        names \in {n \in [1..(MaxSheets + 1) -> SheetNames] : n[1] = "A"},
        sr \in [1..(MaxSheets + 1) -> SharedNameChoices]}

\* packages that differ in which media entries exist
MissingMediaPackages ==
    {MakeZip({<<WorkbookPath, <<Manifest("ok", <<"A">>, 0)>>>>,
              <<SheetRelsEntry(1), <<File("ok", <<RelDrawing(1)>>)>>>>,
              <<DrawingEntry(1), <<GoodDrawing(1)>>>>,
              <<DrawingRelsEntry(1), <<GoodDrawingRels(1)>>>>}
             \cup media) :
        media \in SUBSET MediaPairs}

\* the packages, slice by slice
PackageSlices ==
    {StructurePackages, SheetRelsPackages, DrawingPackages,
     SharedNamePackages, MissingMediaPackages}

\* the callers of saveImage
Callers == {1, 2}

\* no call of saveImage, nothing stored, the database not opened
StoreIdle ==
    /\ store = <<>>
    /\ db = FALSE
    /\ opens = TRUE
    /\ saves = [c \in Callers |-> [pc |-> "idle"]]
    /\ requests = <<>>
    /\ puts = <<>>

\* no file: nothing was given to loadExcelFile
NoFile == [kind |-> "none"]

\* loadExcelFile is not called; the page has the later XMLParser
LoadIdle ==
    /\ version = "part_001"
    /\ excelFile = NoFile
    /\ enabled = TRUE
    /\ lpc = "idle"
    /\ recipes = <<>>
    /\ hasImages = FALSE
    /\ loaded = <<>>
    /\ entryPos = 0
    /\ imagePos = 0
    /\ imageBlobs = <<>>
    /\ failures = <<>>
    /\ imported = <<>>

\* no second call of loadExcelFile
SecondIdle ==
    /\ lpc2 = "idle"
    /\ excelFile2 = NoFile
    /\ loaded2 = <<>>

\* no call of clearAllData, nothing in localStorage
ClearIdle ==
    /\ localStorage = {}
    /\ cpc = "idle"
    /\ clears = TRUE

\* no call of getFileExtension and getMimeType on their own
MimeIdle ==
    /\ givenPath = <<>>
    /\ mimeType = <<>>

\* nothing else happens on the page
PageIdle ==
    /\ SecondIdle
    /\ ClearIdle
    /\ urls = <<>>
    /\ MimeIdle

\* no call of extractImageTransforms on its own
TransformIdle ==
    /\ picXML = File("ok", <<>>)
    /\ picCount = 0
    /\ transforms = <<>>

Init ==
    /\ \E slice \in PackageSlices : zip \in slice
    /\ pc = "start"
    /\ sheets = <<>>
    /\ sheetPos = 0
    /\ drawingPath = Null
    /\ drawingXML = <<>>
    /\ mapping = <<>>
    /\ caught = FALSE
    /\ ret = <<>>
    /\ lookups = <<>>
    /\ writes = <<>>
    /\ first = <<>>
    /\ TransformIdle
    /\ StoreIdle
    /\ LoadIdle
    /\ PageIdle

Spec == Init /\ [][Next]_vars

(***************************************************************************)
(* A second call of createSheetImageMapping on the same package.  What the *)
(* first call left in memory is not cleared for it: only the code's own    *)
(* initialisers make the second call independent of the first.             *)
(***************************************************************************)
\* Object.keys order of the mapping: the names in the order they were first
\* assigned (worksheet names that are no array indices)
RECURSIVE KeysFrom(_, _, _)
KeysFrom(ws, sh, i) ==
    IF i > Len(ws) THEN <<>>
    ELSE LET name == sh[ws[i].pos].name
         IN  IF \E j \in 1..(i - 1) : sh[ws[j].pos].name = name
             THEN KeysFrom(ws, sh, i + 1)
             ELSE <<name>> \o KeysFrom(ws, sh, i + 1)

Keys == KeysFrom(writes, sheets, 1)

\* the caller, having got the result, calls again with the same zip
Reenter ==
    /\ pc = "done"
    /\ first = <<>>
    /\ first' = <<[ret |-> ret[1], keys |-> Keys]>>
    /\ pc' = "start"
    /\ caught' = FALSE
    /\ ret' = <<>>
    /\ lookups' = <<>>
    /\ writes' = <<>>
    /\ UNCHANGED <<zip, sheets, sheetPos, drawingPath, drawingXML, mapping>>
    /\ UNCHANGED otherVars

NextRepeat == Next \/ Reenter

SpecRepeat == Init /\ [][NextRepeat]_vars

(***************************************************************************)
(* extractImageTransforms called on its own, on the picture elements of    *)
(* one drawing.                                                            *)
(***************************************************************************)
Raw(k) == [int |-> k]
NoNumber == [text |-> "abc"]

\* <a:xfrm>: absent, without attributes, or with some of rot, flipH, flipV
XfrmChoices ==
    {<<>>,
     << <<>> >>,
     <<[rot |-> Raw(5400000)]>>,
     <<[rot |-> Raw(-5400000)]>>,
     <<[rot |-> Raw(21600000)]>>,
     <<[rot |-> Raw(27000000), flipH |-> "1"]>>,
     <<[rot |-> Raw(0), flipV |-> "1"]>>,
     <<[flipH |-> "0", flipV |-> "true"]>>,
     <<[flipH |-> "1", flipV |-> "1"]>>,
     <<[rot |-> NoNumber]>>}

\* <a:srcRect>: absent, without attributes, or with some of l, t, r, b
SrcRectChoices ==
    {<<>>,
     << <<>> >>,
     <<[l |-> Raw(10000)]>>,
     <<[l |-> Raw(10000), t |-> Raw(20000), r |-> Raw(30000), b |-> Raw(40000)]>>,
     <<[t |-> Raw(-5000)]>>,
     <<[r |-> Raw(150000), b |-> Raw(100000)]>>,
     <<[b |-> NoNumber]>>}

\* picture elements on which a DOM call throws: when spPr is asked for, when
\* a:xfrm is, when blipFill is, when a:srcRect is
FaultyPics ==
    {[tag |-> "xdr:pic", spPr |-> Throws,
      blipFill |-> <<[embed |-> <<"rId", "1">>, srcRect |-> <<[l |-> Raw(10000)]>>]>>],
     [tag |-> "xdr:pic", spPr |-> <<[xfrm |-> Throws]>>,
      blipFill |-> <<[embed |-> <<"rId", "1">>, srcRect |-> <<[l |-> Raw(10000)]>>]>>]}
    \cup {[tag |-> "xdr:pic", spPr |-> <<[xfrm |-> x]>>, blipFill |-> Throws] :
             x \in XfrmChoices}
    \cup {Pic(<<"rId", "1">>, x, Throws) : x \in XfrmChoices}

PicRotatedFaulty ==
    [tag |-> "xdr:pic", spPr |-> <<[xfrm |-> <<[rot |-> Raw(5400000)]>>]>>,
     blipFill |-> Throws]
PicOutOfRange ==
    Pic(<<"rId", "4">>, <<[rot |-> Raw(27000000)]>>, <<[l |-> Raw(-5000)]>>)

\* the drawings: one picture of any kind, or up to MaxPics of a few kinds
TransformDrawings ==
    {<<p>> : p \in {Pic(<<"rId", "1">>, x, r) : x \in XfrmChoices, r \in SrcRectChoices}
                     \cup FaultyPics}
    \cup SeqsUpTo({PicRotatedCropped, PicPlain, PicFlipped,
                   PicRotatedFaulty, PicOutOfRange}, MaxPics)

\* createSheetImageMapping is not running
ParserIdle ==
    /\ zip = <<>>
    /\ pc = "idle"
    /\ sheets = <<>>
    /\ sheetPos = 0
    /\ drawingPath = Null
    /\ drawingXML = <<>>
    /\ mapping = <<>>
    /\ caught = FALSE
    /\ ret = <<>>
    /\ lookups = <<>>
    /\ writes = <<>>
    /\ first = <<>>

InitTransform ==
    /\ ParserIdle
    /\ picXML \in {File("ok", pics) : pics \in TransformDrawings}
    /\ picCount \in 0..MaxImageRels
    /\ transforms = <<>>
    /\ StoreIdle
    /\ LoadIdle
    /\ PageIdle

\* extractImageTransforms(drawingXML, imageCount) is called and returns
ExtractTransforms ==
    /\ transforms = <<>>
    /\ transforms' = <<extractImageTransforms(picXML, picCount)>>
    /\ UNCHANGED <<picXML, picCount, parserVars, first, storeVars, loadVars,
                   pageVars>>

NextTransform == ExtractTransforms

SpecTransform == InitTransform /\ [][NextTransform]_vars

(***************************************************************************)
(* ImageStore.saveImage.  The object store has the key path recipeName;    *)
(* every call opens a readwrite transaction of its own with one put        *)
(* request.  IndexedDB carries out the readwrite transactions on one       *)
(* object store one after the other, in the order they were created, and   *)
(* put() stores a structured clone taken when the request is made.  A      *)
(* transaction whose request succeeded commits.  The timestamp field of    *)
(* the record, which nothing reads, is left out.                           *)
(***************************************************************************)
\* an argument that is one value, or an array of values, or null
Single(x) == [isArray |-> FALSE, value |-> x]
Array(xs) == [isArray |-> TRUE, items |-> xs]
NoArgument == [isNull |-> TRUE]

\* Array.isArray(x) ? x : [x]
AsArray(x) == IF x.isArray THEN x.items ELSE <<x.value>>

\* transforms ? (Array.isArray(transforms) ? transforms : [transforms]) : []
TransformsArray(ts) == IF ts = NoArgument THEN <<>> ELSE AsArray(ts)

\* saveImage without the loop that fills up the transforms
PadTransforms_None(ts, n) == ts

\* while (transformsArray.length < imageBlobs.length) push(getDefaultTransform())
RECURSIVE PadTransforms(_, _)
PadTransforms(ts, n) ==
    IF Len(ts) < n THEN PadTransforms(Append(ts, getDefaultTransform), n)
    ELSE ts

\* the value handed to store.put
PutValue(recipeName, imageBlob, ts) ==
    [recipeName |-> recipeName,
     imageBlobs |-> AsArray(imageBlob),
     transforms |-> PadTransforms(TransformsArray(ts), Len(AsArray(imageBlob)))]

\* a put that adds the images to those of the record already there
Put_Merge(st, value) ==
    [n \in DOMAIN st \cup {value.recipeName} |->
        IF n # value.recipeName THEN st[n]
        ELSE IF n \in DOMAIN st
             THEN [value EXCEPT !.imageBlobs = st[n].imageBlobs \o @]
             ELSE value]

\* IDBObjectStore.put with an in-line key: the value becomes the record of
\* its key, whatever record the key had
Put(st, value) ==
    [n \in DOMAIN st \cup {value.recipeName} |->
        IF n = value.recipeName THEN value ELSE st[n]]

\* what lies outside ImageStore
outsideStore == <<parserVars, first, transformVars, loadVars, pageVars>>

\* the calls of saveImage that have not settled yet
InProgress == {c \in Callers : saves[c].pc \in {"init", "put"}}

\* the arguments of a call, and the calls in progress when it was made
Args(recipeName, imageBlob, ts) ==
    [recipeName |-> recipeName, imageBlob |-> imageBlob, transforms |-> ts,
     during |-> InProgress]

\* lines 55-72: the record is built, the transaction and its request made
MakeRequest(c, args) ==
    /\ requests' = Append(requests,
                          [caller |-> c,
                           value |-> PutValue(args.recipeName, args.imageBlob,
                                              args.transforms)])
    /\ saves' = [saves EXCEPT ![c] = [pc |-> "put", args |-> args]]

\* saveImage(recipeName, imageBlob, transforms) is called: with the database
\* open it runs on to the put request, else it awaits init()
saveImage(c, recipeName, imageBlob, ts) ==
    /\ saves[c].pc = "idle"
    /\ IF db
       THEN MakeRequest(c, Args(recipeName, imageBlob, ts))
       ELSE /\ saves' = [saves EXCEPT ![c] =
                            [pc |-> "init",
                             args |-> Args(recipeName, imageBlob, ts)]]
            /\ UNCHANGED requests
    /\ UNCHANGED <<store, db, opens, puts>>

\* init(): the open request succeeds, this.db is set, and the call that
\* awaited it goes on to its put request
InitSucceeds(c) ==
    /\ saves[c].pc = "init"
    /\ opens
    /\ db' = TRUE
    /\ MakeRequest(c, saves[c].args)
    /\ UNCHANGED <<store, opens, puts>>
    /\ UNCHANGED outsideStore

\* init(): the open request fails, and saveImage rejects with init's error
InitFails(c) ==
    /\ saves[c].pc = "init"
    /\ ~opens
    /\ saves' = [saves EXCEPT ![c] = [@ EXCEPT !.pc = "rejected"]]
    /\ UNCHANGED <<store, db, opens, requests, puts>>
    /\ UNCHANGED outsideStore

\* the oldest transaction runs: its request succeeds, the record is written
\* and the call's promise resolves
PutSucceeds ==
    /\ requests # <<>>
    /\ store' = Put(store, Head(requests).value)
    /\ puts' = Append(puts, Head(requests).caller)
    /\ saves' = [saves EXCEPT ![Head(requests).caller] =
                    [@ EXCEPT !.pc = "resolved"]]
    /\ requests' = Tail(requests)
    /\ UNCHANGED <<db, opens>>
    /\ UNCHANGED outsideStore

\* the oldest transaction runs: its request fails, nothing is written and
\* the call's promise rejects
PutFails ==
    /\ requests # <<>>
    /\ saves' = [saves EXCEPT ![Head(requests).caller] =
                    [@ EXCEPT !.pc = "rejected"]]
    /\ requests' = Tail(requests)
    /\ UNCHANGED <<store, db, opens, puts>>
    /\ UNCHANGED outsideStore

(***************************************************************************)
(* Two callers of saveImage, each calling once, at any time.               *)
(***************************************************************************)
Blob(data, type) == [data |-> data, type |-> type]

RecipeNames == {"A", "B"}

ImageArguments ==
    {Single(Blob("d1", "image/png")),
     Array(<<Blob("d1", "image/png"), Blob("d2", "image/jpeg")>>),
     Array(<<Blob("d3", "image/png")>>)}

Turned == [getDefaultTransform EXCEPT !.rotation = Num(90)]
Mirrored == [getDefaultTransform EXCEPT !.flipH = TRUE]

TransformArguments ==
    {NoArgument, Single(Turned), Array(<<Mirrored>>),
     Array(<<Mirrored, Turned, Turned>>)}

InitStore ==
    /\ ParserIdle
    /\ TransformIdle
    /\ LoadIdle
    /\ PageIdle
    /\ store = <<>>
    /\ opens \in BOOLEAN
    /\ db \in {FALSE, opens}
    /\ saves = [c \in Callers |-> [pc |-> "idle"]]
    /\ requests = <<>>
    /\ puts = <<>>

SaveCall(c) ==
    /\ \E recipeName \in RecipeNames, imageBlob \in ImageArguments,
          ts \in TransformArguments :
            saveImage(c, recipeName, imageBlob, ts)
    /\ UNCHANGED outsideStore

\* FileReader.readAsDataURL: the data URL of a blob
DataURL(blob) == <<"data:", blob.type, ";base64,", blob.data>>

\* while (transforms.length < blobs.length) push(getDefaultTransform())
RECURSIVE FillTransforms(_, _)
FillTransforms(ts, n) ==
    IF Len(ts) < n THEN FillTransforms(Append(ts, getDefaultTransform), n)
    ELSE ts

\* imageStore.js line 237-275: what the success handler of the get request
\* makes of its result, a record as saveImage writes it or nothing
getAllImageDataURLs(result) ==
    IF result = <<>> THEN <<>>
    ELSE LET filled     == Len(result[1].imageBlobs) > 0
             blobs      == IF filled THEN result[1].imageBlobs ELSE <<>>
             filledUp   == FillTransforms(IF filled THEN result[1].transforms
                                          ELSE <<>>, Len(blobs))
         IN  [index \in 1..Len(blobs) |->
                 [dataUrl   |-> DataURL(blobs[index]),
                  transform |-> filledUp[index]]]

\* imageStore.js line 227-279: getAllImageDataURLs(recipeName) is called, and
\* its get request succeeds, after init() where the database was not open;
\* or init() rejects
GetAllImageDataURLs(recipeName) ==
    /\ urls = <<>>
    /\ LET result == IF recipeName \in DOMAIN store
                     THEN <<store[recipeName]>> ELSE <<>>
       IN  IF db \/ opens
           THEN /\ db' = TRUE
                /\ urls' = <<[recipeName |-> recipeName, threw |-> FALSE,
                              result |-> result,
                              value |-> getAllImageDataURLs(result)]>>
           ELSE /\ urls' = <<[recipeName |-> recipeName, threw |-> TRUE,
                              result |-> <<>>, value |-> <<>>]>>
                /\ UNCHANGED db
    /\ UNCHANGED <<store, opens, saves, requests, puts>>
    /\ UNCHANGED <<parserVars, first, transformVars, loadVars, secondVars,
                   clearVars, mimeVars>>

NextStore ==
    \/ \E c \in Callers : SaveCall(c)
    \/ \E c \in Callers : InitSucceeds(c)
    \/ \E c \in Callers : InitFails(c)
    \/ PutSucceeds
    \/ PutFails
    \/ \E recipeName \in RecipeNames : GetAllImageDataURLs(recipeName)

SpecStore == InitStore /\ [][NextStore]_vars

(***************************************************************************)
(* RecipeGenerator.loadExcelFile, phase 1: the recipe list from what       *)
(* SheetJS reads.  A workbook is [SheetNames, Sheets]; of a worksheet only *)
(* the table sheet_to_json gives is kept, rows of cells, and a cell is its *)
(* text and whether blanks surround it.  The details extractRecipeDetails  *)
(* adds to a recipe (servings, ingredients, ...) are left out.             *)
(***************************************************************************)
Cell(text)   == [text |-> text, padded |-> FALSE]
Padded(text) == [text |-> text, padded |-> TRUE]

\* String.prototype.trim
Trim(cell) == cell.text

\* cell && cell.trim() !== ''
NonBlank(cell) == Trim(cell) # ""

\* columnCategories[col]: <<>> where the column has no main category
ColumnCategory(data, col) ==
    IF NonBlank(data[1][col])
    THEN IF NonBlank(data[2][col])
         THEN << <<data[1][col], Cell(" - "), data[2][col]>> >>
         ELSE << <<data[1][col]>> >>
    ELSE <<>>

\* the cells from row 2 on in reading order that pass the condition of line
\* 260, as [name, category]; k counts the cells read so far
RECURSIVE IndexEntries(_, _)
IndexEntries(data, k) ==
    LET width == Len(data[1])
        row   == 3 + (k \div width)
        col   == 1 + (k % width)
    IN  IF row > Len(data) THEN <<>>
        ELSE IF NonBlank(data[row][col]) /\ ColumnCategory(data, col) # <<>>
             THEN <<[name |-> Trim(data[row][col]),
                     category |-> ColumnCategory(data, col)[1]]>>
                      \o IndexEntries(data, k + 1)
             ELSE IndexEntries(data, k + 1)

\* the names of a Set in insertion order: each at its first add
RECURSIVE InsertionOrder(_, _)
InsertionOrder(names, i) ==
    IF i > Len(names) THEN <<>>
    ELSE IF \E j \in 1..(i - 1) : names[j] = names[i]
         THEN InsertionOrder(names, i + 1)
         ELSE <<names[i]>> \o InsertionOrder(names, i + 1)

NoCategories == [categoryMap |-> <<>>, allRecipeNames |-> <<>>]

extractCategories(workbook) ==
    IF "Inhaltsverzeichnis" \notin DOMAIN workbook.Sheets THEN NoCategories
    ELSE LET data == workbook.Sheets["Inhaltsverzeichnis"]
             es   == IndexEntries(data, 0)
             last(n) == CHOOSE i \in 1..Len(es) :
                            /\ es[i].name = n
                            /\ \A j \in (i + 1)..Len(es) : es[j].name # n
         IN  IF Len(data) < 3 THEN NoCategories
             ELSE [categoryMap |->
                       [n \in {es[i].name : i \in 1..Len(es)} |->
                           es[last(n)].category],
                   allRecipeNames |->
                       InsertionOrder([i \in 1..Len(es) |-> es[i].name], 1)]

\* categoryMap[name] || 'Ohne Kategorie'
CategoryOf(categoryMap, name) ==
    IF name \in DOMAIN categoryMap THEN categoryMap[name]
    ELSE <<Cell("Ohne Kategorie")>>

\* line 39
IsRecipeSheet(sheetName) ==
    sheetName # "Inhaltsverzeichnis" /\ sheetName # "Vorlage"

\* line 38-52: a recipe for every worksheet that passes line 39, with the
\* worksheet's position as id; i is the position, counted from 0
RECURSIVE SheetRecipes(_, _, _)
SheetRecipes(sheetNames, categoryMap, i) ==
    IF i >= Len(sheetNames) THEN <<>>
    ELSE IF IsRecipeSheet(sheetNames[i + 1])
         THEN <<[id |-> i, name |-> sheetNames[i + 1],
                 sheetName |-> <<sheetNames[i + 1]>>, hasImage |-> FALSE,
                 imageCount |-> <<>>,
                 category |-> CategoryOf(categoryMap, sheetNames[i + 1]),
                 isPlaceholder |-> FALSE]>>
                  \o SheetRecipes(sheetNames, categoryMap, i + 1)
         ELSE SheetRecipes(sheetNames, categoryMap, i + 1)

\* line 55-77: a placeholder for every listed name that is not in
\* existingSheets
RECURSIVE Placeholders(_, _, _, _, _)
Placeholders(allRecipeNames, existingSheets, categoryMap, placeholderId, i) ==
    IF i > Len(allRecipeNames) THEN <<>>
    ELSE IF allRecipeNames[i] \notin existingSheets
         THEN <<[id |-> placeholderId, name |-> allRecipeNames[i],
                 sheetName |-> <<>>, hasImage |-> FALSE, imageCount |-> <<>>,
                 category |-> CategoryOf(categoryMap, allRecipeNames[i]),
                 isPlaceholder |-> TRUE]>>
                  \o Placeholders(allRecipeNames, existingSheets, categoryMap,
                                  placeholderId + 1, i + 1)
         ELSE Placeholders(allRecipeNames, existingSheets, categoryMap,
                           placeholderId, i + 1)

\* the order of localeCompare(..., 'de') on the names of the model
Collation == <<"A", "B", "Inhaltsverzeichnis", "Vorlage">>
Rank(name) == CHOOSE i \in 1..Len(Collation) : Collation[i] = name

\* Array.prototype.sort by name: stable
RECURSIVE SortByName(_)
SortByName(rs) ==
    IF rs = <<>> THEN <<>>
    ELSE LET sorted == SortByName(SubSeq(rs, 1, Len(rs) - 1))
             r      == rs[Len(rs)]
             before == {i \in 1..Len(sorted) : Rank(sorted[i].name) <= Rank(r.name)}
             k      == Cardinality(before)
         IN  SubSeq(sorted, 1, k) \o <<r>> \o SubSeq(sorted, k + 1, Len(sorted))

\* line 29-80: this.recipes after phase 1
RecipeList(workbook) ==
    LET cats == extractCategories(workbook)
        existingSheets == {workbook.SheetNames[i] : i \in
                             {j \in 1..Len(workbook.SheetNames) :
                                 IsRecipeSheet(workbook.SheetNames[j])}}
        bySheet == SheetRecipes(workbook.SheetNames, cats.categoryMap, 0)
    IN  SortByName(bySheet \o Placeholders(cats.allRecipeNames, existingSheets,
                                          cats.categoryMap, Len(bySheet), 1))

(***************************************************************************)
(* The earlier XMLParser (part_000): createSheetImageMapping does not read *)
(* the drawing, and records the image paths themselves.  Its steps up to   *)
(* the worksheet's relationship file and its helpers are those of the      *)
(* later one.                                                              *)
(***************************************************************************)
\* part_000 line 109-120: the worksheet's relationship text arrives
RelsReadEarlier ==
    /\ pc = "awaitRels"
    /\ LET relsFile == zip[RelsPath(sheets[sheetPos].index)]
           path     == extractDrawingPath(relsFile)
       IN  /\ relsFile.status # "unreadable"
           /\ IF ~Truthy(path)
              THEN Continue /\ UNCHANGED lookups
              ELSE /\ lookups' = Append(lookups, DrawingRelsPath(path))
                   /\ IF HasFile(DrawingRelsPath(path))
                      THEN /\ pc' = "awaitDrawingRels"
                           /\ drawingPath' = path
                           /\ UNCHANGED <<sheetPos, drawingXML>>
                      ELSE Continue
    /\ UNCHANGED <<zip, sheets, mapping, caught, ret, writes>>
    /\ UNCHANGED outerVars

\* part_000 line 120-126: the drawing's relationship text arrives
DrawingRelsReadEarlier ==
    /\ pc = "awaitDrawingRels"
    /\ LET drawingRelsFile == zip[DrawingRelsPath(drawingPath)]
           imagePaths      == extractImagePaths(drawingRelsFile)
       IN  /\ drawingRelsFile.status # "unreadable"
           /\ IF Len(imagePaths) > 0
              THEN /\ mapping' = Assign(mapping, sheets[sheetPos].name, imagePaths)
                   /\ writes' = Append(writes, [pos |-> sheetPos,
                                                drawing |-> drawingPath])
              ELSE UNCHANGED <<mapping, writes>>
    /\ Continue
    /\ UNCHANGED <<zip, sheets, caught, ret, lookups>>
    /\ UNCHANGED outerVars

\* createSheetImageMapping as the page has it
NextParser ==
    \/ Call
    \/ WorkbookRead
    \/ SheetStart
    \/ (version = "part_001" /\ RelsRead)
    \/ (version = "part_001" /\ DrawingRead)
    \/ (version = "part_001" /\ DrawingRelsRead)
    \/ (version = "part_000" /\ RelsReadEarlier)
    \/ (version = "part_000" /\ DrawingRelsReadEarlier)
    \/ ReadRejected
    \/ Return

(***************************************************************************)
(* XMLParser.getFileExtension and getMimeType.                             *)
(***************************************************************************)
\* the tokens that begin with a dot, each with the text after the dot
DotTexts ==
    {<<".png", "png">>, <<".PNG", "PNG">>, <<".Png", "Png">>,
     <<".jpg", "jpg">>, <<".JPG", "JPG">>, <<".jpeg", "jpeg">>,
     <<".JPEG", "JPEG">>, <<".gif", "gif">>, <<".GIF", "GIF">>,
     <<".bmp", "bmp">>, <<".BMP", "BMP">>, <<".webp", "webp">>,
     <<".WebP", "WebP">>, <<".svg", "svg">>, <<".tiff", "tiff">>,
     <<".emf", "emf">>, <<".xml", "xml">>, <<".rels", "rels">>,
     <<".bin", "bin">>, <<".old", "old">>, <<".", "">>,
     <<".constructor", "constructor">>, <<".Constructor", "Constructor">>,
     <<".__proto__", "__proto__">>}

AfterDot ==
    [t \in {p[1] : p \in DotTexts} |-> (CHOOSE p \in DotTexts : p[1] = t)[2]]

\* the texts of the model that are not in lower case, each with its lower case
UpperTexts ==
    {<<"PNG", "png">>, <<"Png", "png">>, <<"JPG", "jpg">>, <<"JPEG", "jpeg">>,
     <<"GIF", "gif">>, <<"BMP", "bmp">>, <<"WebP", "webp">>,
     <<"Constructor", "constructor">>, <<"IMG", "img">>}

\* String.prototype.toLowerCase on the texts of the model
ToLowerCase(text) ==
    IF \E p \in UpperTexts : p[1] = text
    THEN (CHOOSE p \in UpperTexts : p[1] = text)[2]
    ELSE text

\* path.split('.'): the last part, lower-cased, or '' without a dot
getFileExtension(path) ==
    LET dots == {i \in 1..Len(path) : path[i] \in DOMAIN AfterDot}
        last == CHOOSE i \in dots : \A j \in dots : j <= i
    IN  IF dots = {} THEN <<>>
        ELSE [i \in 1..(Len(path) - last + 1) |->
                 IF i = 1 THEN ToLowerCase(AfterDot[path[last]])
                 ELSE ToLowerCase(path[last + i - 1])]

\* mimeTypes[extension.toLowerCase()] || 'image/png': mimeTypes is an object
\* literal, so the lookup also finds what it inherits from Object.prototype
\* under a lower-case name, the function Object and Object.prototype itself,
\* both truthy and given here as the text they turn into
getMimeType(extension) ==
    LET e == [i \in 1..Len(extension) |-> ToLowerCase(extension[i])]
    IN  CASE e = <<"png">>  -> "image/png"
          [] e = <<"jpg">>  -> "image/jpeg"
          [] e = <<"jpeg">> -> "image/jpeg"
          [] e = <<"gif">>  -> "image/gif"
          [] e = <<"bmp">>  -> "image/bmp"
          [] e = <<"webp">> -> "image/webp"
          [] e = <<"constructor">> -> "function Object() { [native code] }"
          [] e = <<"__proto__">>   -> "[object Object]"
          [] OTHER          -> "image/png"

(***************************************************************************)
(* RecipeGenerator.loadExcelFile, one action per stretch of code between   *)
(* two awaits; the loops of extractAndSaveImages advance one image, one    *)
(* entry at a time.  The progress callback is left out.                    *)
(***************************************************************************)
inputVars == <<version, excelFile, enabled>>
loopVars == <<entryPos, imagePos, imageBlobs>>
historyVars == <<failures, imported>>

\* what lies outside RecipeGenerator
outsideLoad == <<parserVars, first, transformVars, storeVars, pageVars>>

\* Object.entries(mapping) of the mapping createSheetImageMapping returned
Entries ==
    [i \in 1..Len(Keys) |->
        [recipeName |-> Keys[i], imagePaths |-> ret[1].value[Keys[i]]]]

\* the entry name JSZip's file(name) looks up, this.root + name: the path of
\* the earlier parser, "[object Object]" for a {path, transform} object
EntryName(imagePath) ==
    IF version = "part_000" THEN imagePath ELSE <<"[object Object]">>

\* the image the loops are at
ImagePath == Entries[entryPos].imagePaths[imagePos]

\* return this.recipes
LoadReturn(rs) ==
    /\ loaded' = <<[threw |-> FALSE, value |-> rs]>>
    /\ lpc' = "done"

\* on to the next entry of the mapping
NextEntry ==
    /\ entryPos' = entryPos + 1
    /\ imagePos' = 1
    /\ imageBlobs' = <<>>
    /\ lpc' = "images"

\* line 205-207: the catch block of the loop ran for the entry
Caught == failures' = Append(failures, Entries[entryPos].recipeName)

\* line 188-192: the first recipe of that name gets hasImage and imageCount
MarkImages(rs, recipeName, count) ==
    LET named == {i \in 1..Len(rs) : rs[i].name = recipeName}
        found == CHOOSE i \in named : \A j \in named : i <= j
    IN  IF named = {} THEN rs
        ELSE [rs EXCEPT ![found] =
                 [@ EXCEPT !.hasImage = TRUE, !.imageCount = <<count>>]]

\* line 20-25: loadExcelFile(file) is called
LoadCall ==
    /\ lpc = "idle"
    /\ lpc' = "arrayBuffer"
    /\ UNCHANGED <<inputVars, historyVars, recipes, hasImages, loaded, loopVars>>
    /\ UNCHANGED outsideLoad

\* line 25-27, 102-104: file.arrayBuffer() rejects or XLSX.read throws
LoadThrows ==
    /\ lpc = "arrayBuffer"
    /\ excelFile.kind \in {"unreadable", "garbage"}
    /\ loaded' = <<[threw |-> TRUE, value |-> <<>>]>>
    /\ lpc' = "done"
    /\ UNCHANGED <<inputVars, historyVars, recipes, hasImages, loopVars>>
    /\ UNCHANGED outsideLoad

\* line 25-101, 132-138: the bytes arrive, phase 1 runs, and phase 2 begins
\* with imageStore.init() where JSZip and the image store are there
LoadRead ==
    /\ lpc = "arrayBuffer"
    /\ excelFile.kind \notin {"unreadable", "garbage"}
    /\ recipes' = RecipeList(excelFile)
    /\ IF enabled
       THEN lpc' = "init" /\ UNCHANGED loaded
       ELSE LoadReturn(recipes')
    /\ UNCHANGED <<inputVars, historyVars, hasImages, loopVars>>
    /\ UNCHANGED outsideLoad

\* line 138-142: init() resolves
LoadInitSucceeds ==
    /\ lpc = "init"
    /\ opens
    /\ db' = TRUE
    /\ lpc' = "zip"
    /\ UNCHANGED <<inputVars, historyVars, recipes, hasImages, loaded, loopVars>>
    /\ UNCHANGED <<store, opens, saves, requests, puts>>
    /\ UNCHANGED <<parserVars, first, transformVars, pageVars>>

\* line 138, 93-101: init() rejects
LoadInitFails ==
    /\ lpc = "init"
    /\ ~opens
    /\ hasImages' = FALSE
    /\ LoadReturn(recipes)
    /\ UNCHANGED <<inputVars, historyVars, recipes, loopVars>>
    /\ UNCHANGED outsideLoad

\* LoadZip of an import that empties the store before it stores
LoadZip_Clearing ==
    /\ lpc = "zip"
    /\ excelFile.kind = "xlsx"
    /\ lpc' = "mapping"
    /\ pc' = "start"
    /\ store' = <<>>
    /\ UNCHANGED <<inputVars, historyVars, recipes, hasImages, loaded, loopVars>>
    /\ UNCHANGED <<zip, sheets, sheetPos, drawingPath, drawingXML, mapping,
                   caught, ret, lookups, writes>>
    /\ UNCHANGED <<first, transformVars, db, opens, saves, requests, puts,
                   pageVars>>

\* line 141-147: JSZip.loadAsync resolves, createSheetImageMapping is next
LoadZip ==
    /\ lpc = "zip"
    /\ excelFile.kind = "xlsx"
    /\ lpc' = "mapping"
    /\ pc' = "start"
    /\ UNCHANGED <<inputVars, historyVars, recipes, hasImages, loaded, loopVars>>
    /\ UNCHANGED <<zip, sheets, sheetPos, drawingPath, drawingXML, mapping,
                   caught, ret, lookups, writes>>
    /\ UNCHANGED <<first, transformVars, storeVars, pageVars>>

\* LoadZipFails, the rejection passed on to the caller of loadExcelFile
LoadZipFails_Rethrow ==
    /\ lpc = "zip"
    /\ excelFile.kind # "xlsx"
    /\ loaded' = <<[threw |-> TRUE, value |-> <<>>]>>
    /\ lpc' = "done"
    /\ UNCHANGED <<inputVars, historyVars, recipes, hasImages, loopVars>>
    /\ UNCHANGED outsideLoad

\* line 142, 93-101: the file is no zip archive, JSZip.loadAsync rejects
LoadZipFails ==
    /\ lpc = "zip"
    /\ excelFile.kind # "xlsx"
    /\ hasImages' = FALSE
    /\ LoadReturn(recipes)
    /\ UNCHANGED <<inputVars, historyVars, recipes, loopVars>>
    /\ UNCHANGED outsideLoad

\* line 147-163: the mapping arrives
LoadMapped ==
    /\ lpc = "mapping"
    /\ pc = "done"
    /\ lpc' = "images"
    /\ entryPos' = 1
    /\ imagePos' = 1
    /\ imageBlobs' = <<>>
    /\ UNCHANGED <<inputVars, historyVars, recipes, hasImages, loaded>>
    /\ UNCHANGED outsideLoad

\* line 166-174: zip.file(imagePath)
LoadImage ==
    /\ lpc = "images"
    /\ entryPos <= Len(Entries)
    /\ imagePos <= Len(Entries[entryPos].imagePaths)
    /\ IF EntryName(ImagePath) \in DOMAIN zip
       THEN lpc' = "blob" /\ UNCHANGED loopVars
       ELSE imagePos' = imagePos + 1 /\ UNCHANGED <<lpc, entryPos, imageBlobs>>
    /\ UNCHANGED <<inputVars, historyVars, recipes, hasImages, loaded>>
    /\ UNCHANGED outsideLoad

\* line 174-181: the image bytes arrive; getFileExtension calls split on
\* imagePath, which a {path, transform} object does not have
LoadBlob ==
    /\ lpc = "blob"
    /\ zip[EntryName(ImagePath)].status # "unreadable"
    /\ IF version = "part_000"
       THEN /\ imageBlobs' = Append(imageBlobs,
                                    Blob(EntryName(ImagePath),
                                         getMimeType(getFileExtension(ImagePath))))
            /\ imagePos' = imagePos + 1
            /\ lpc' = "images"
            /\ UNCHANGED <<entryPos, failures>>
       ELSE NextEntry /\ Caught
    /\ UNCHANGED <<inputVars, imported, recipes, hasImages, loaded>>
    /\ UNCHANGED outsideLoad

\* line 174, 205-207: async('arraybuffer') rejects
LoadBlobFails ==
    /\ lpc = "blob"
    /\ zip[EntryName(ImagePath)].status = "unreadable"
    /\ NextEntry
    /\ Caught
    /\ UNCHANGED <<inputVars, imported, recipes, hasImages, loaded>>
    /\ UNCHANGED outsideLoad

\* line 183-185: the images of the entry are through
LoadSave ==
    /\ lpc = "images"
    /\ entryPos <= Len(Entries)
    /\ imagePos > Len(Entries[entryPos].imagePaths)
    /\ IF Len(imageBlobs) > 0
       THEN /\ saveImage(1, Entries[entryPos].recipeName, Array(imageBlobs),
                         NoArgument)
            /\ lpc' = "saving"
            /\ UNCHANGED loopVars
       ELSE NextEntry /\ UNCHANGED storeVars
    /\ UNCHANGED <<inputVars, historyVars, recipes, hasImages, loaded>>
    /\ UNCHANGED <<parserVars, first, transformVars, pageVars>>

\* line 185-195: saveImage resolves
LoadSaved ==
    /\ lpc = "saving"
    /\ saves[1].pc = "resolved"
    /\ recipes' = MarkImages(recipes, Entries[entryPos].recipeName,
                             Len(imageBlobs))
    /\ NextEntry
    /\ saves' = [saves EXCEPT ![1] = [pc |-> "idle"]]
    /\ UNCHANGED <<inputVars, historyVars, hasImages, loaded>>
    /\ UNCHANGED <<store, db, opens, requests, puts>>
    /\ UNCHANGED <<parserVars, first, transformVars, pageVars>>

\* LoadSaveFails without the try/catch inside the loop: the rejection ends
\* extractAndSaveImages
LoadSaveFails_Abort ==
    /\ lpc = "saving"
    /\ saves[1].pc = "rejected"
    /\ Caught
    /\ hasImages' = FALSE
    /\ LoadReturn(recipes)
    /\ saves' = [saves EXCEPT ![1] = [pc |-> "idle"]]
    /\ UNCHANGED <<inputVars, imported, recipes, loopVars>>
    /\ UNCHANGED <<store, db, opens, requests, puts>>
    /\ UNCHANGED <<parserVars, first, transformVars, pageVars>>

\* line 185, 205-207: saveImage rejects
LoadSaveFails ==
    /\ lpc = "saving"
    /\ saves[1].pc = "rejected"
    /\ NextEntry
    /\ Caught
    /\ saves' = [saves EXCEPT ![1] = [pc |-> "idle"]]
    /\ UNCHANGED <<inputVars, imported, recipes, hasImages, loaded>>
    /\ UNCHANGED <<store, db, opens, requests, puts>>
    /\ UNCHANGED <<parserVars, first, transformVars, pageVars>>

\* line 161, 210, 90-101: the entries are through
LoadFinish ==
    /\ lpc = "images"
    /\ entryPos > Len(Entries)
    /\ hasImages' = TRUE
    /\ LoadReturn(recipes)
    /\ UNCHANGED <<inputVars, historyVars, recipes, loopVars>>
    /\ UNCHANGED outsideLoad

(***************************************************************************)
(* The files given to loadExcelFile: a workbook as SheetJS reads it and    *)
(* the package JSZip opens, of the same worksheets.                        *)
(***************************************************************************)
Range(seq) == {seq[i] : i \in 1..Len(seq)}

\* the worksheet lists, with and without a table of contents and a template
LoadNameLists ==
    {<<"Inhaltsverzeichnis", "Vorlage", "A">>,
     <<"B", "A">>,
     <<"Vorlage", "B", "Inhaltsverzeichnis">>}

\* the head of a table of contents: main categories, sub categories
IndexHead ==
    << <<Cell("Snacks"), Cell("")>>, <<Padded("Salzig"), Cell("")>> >>
IndexHeadBoth ==
    << <<Cell("Snacks"), Padded("Nachtisch")>>, <<Cell(""), Padded("")>> >>

IndexCells ==
    {Cell(""), Padded(""), Cell("A"), Padded("B"), Padded("Vorlage"),
     Cell("Inhaltsverzeichnis")}

\* tables of contents: too short, one row of names, two rows of names
IndexTables ==
    {IndexHead}
    \cup {IndexHead \o << <<c, d>> >> : c \in IndexCells, d \in IndexCells}
    \cup {IndexHeadBoth \o << <<c, Cell("A")>>, <<Padded("B"), d>> >> :
             c \in IndexCells, d \in IndexCells}

\* the table of contents where the images are what varies
UsualIndex == IndexHead \o << <<Padded("Vorlage"), Cell("B")>>, <<Cell("A"), Cell("")>> >>

\* the workbook SheetJS reads
Workbook(kind, names, table) ==
    [kind |-> kind, SheetNames |-> names,
     Sheets |-> [n \in Range(names) |->
                    IF n = "Inhaltsverzeichnis" THEN table ELSE <<>>]]

\* a worksheet's relationship file: none, drawing 1, drawing 2, unreadable
LoadRelsChoices ==
    {<<>>,
     <<File("ok", <<RelDrawing(1)>>)>>,
     <<File("ok", <<RelPrinter, RelDrawing(2)>>)>>,
     <<File("unreadable", <<>>)>>}

\* the media: all there, one missing, one missing and one unreadable
LoadMediaChoices ==
    {MediaPairs,
     MediaPairs \ {<<ImageEntry(1), <<File("ok", <<>>)>>>>},
     {<<ImageEntry(1), <<File("ok", <<>>)>>>>,
      <<PhotoEntry, <<File("unreadable", <<>>)>>>>}}

\* the package of the worksheets named, drawing 1 with two images and
\* drawing 2 with one
LoadPackage(names, sr, media) ==
    MakeZip({<<WorkbookPath, <<Manifest("ok", names, 0)>>>>,
             <<DrawingEntry(1), <<GoodDrawing(1)>>>>,
             <<DrawingRelsEntry(1), <<GoodDrawingRels(1)>>>>,
             <<DrawingEntry(2), <<File("ok", <<PicFlipped>>)>>>>,
             <<DrawingRelsEntry(2), <<File("ok", <<RelPhoto>>)>>>>}
            \cup {<<SheetRelsEntry(k), sr[k]>> : k \in 1..Len(names)}
            \cup media)

\* every worksheet with a drawing
AllDrawn(names) ==
    [k \in 1..Len(names) |->
        IF k = 1 THEN <<File("ok", <<RelDrawing(1)>>)>>
        ELSE <<File("ok", <<RelPrinter, RelDrawing(2)>>)>>]

LoadInput(f, z, e, o) == [excelFile |-> f, zip |-> z, enabled |-> e, opens |-> o]

\* files that differ in the table of contents
IndexInputs ==
    {LoadInput(Workbook("xlsx", names, table),
               LoadPackage(names, AllDrawn(names), MediaPairs), TRUE, TRUE) :
        names \in LoadNameLists, table \in IndexTables}

\* files that differ in the drawings of the worksheets and in the media
ImageInputs ==
    UNION {{LoadInput(Workbook("xlsx", names, UsualIndex),
                      LoadPackage(names, sr, media), TRUE, TRUE) :
               sr \in [1..Len(names) -> LoadRelsChoices],
               media \in LoadMediaChoices} :
           names \in LoadNameLists}

\* a page without JSZip or image store, a database that does not open,
\* a workbook SheetJS reads that is no zip archive, a file SheetJS cannot
\* read, a file that cannot be read at all
PlatformInputs ==
    {LoadInput(Workbook("xlsx", names, UsualIndex),
               LoadPackage(names, AllDrawn(names), MediaPairs), e, o) :
        names \in LoadNameLists,
        e \in BOOLEAN, o \in BOOLEAN}
    \cup {LoadInput(Workbook("other", names, UsualIndex), <<>>, TRUE, TRUE) :
             names \in LoadNameLists}
    \cup {LoadInput([kind |-> k], <<>>, TRUE, TRUE) :
             k \in {"garbage", "unreadable"}}

LoadInputs == IndexInputs \cup ImageInputs \cup PlatformInputs

InitLoad ==
    /\ \E in \in LoadInputs :
        /\ excelFile = in.excelFile
        /\ zip = in.zip
        /\ enabled = in.enabled
        /\ opens = in.opens
    /\ version \in {"part_000", "part_001"}
    /\ pc = "idle"
    /\ sheets = <<>>
    /\ sheetPos = 0
    /\ drawingPath = Null
    /\ drawingXML = <<>>
    /\ mapping = <<>>
    /\ caught = FALSE
    /\ ret = <<>>
    /\ lookups = <<>>
    /\ writes = <<>>
    /\ first = <<>>
    /\ TransformIdle
    /\ store = <<>>
    /\ db = FALSE
    /\ saves = [c \in Callers |-> [pc |-> "idle"]]
    /\ requests = <<>>
    /\ puts = <<>>
    /\ lpc = "idle"
    /\ recipes = <<>>
    /\ hasImages = FALSE
    /\ loaded = <<>>
    /\ entryPos = 0
    /\ imagePos = 0
    /\ imageBlobs = <<>>
    /\ failures = <<>>
    /\ imported = <<>>
    /\ PageIdle

NextLoad ==
    \/ LoadCall
    \/ LoadThrows
    \/ LoadRead
    \/ LoadInitSucceeds
    \/ LoadInitFails
    \/ LoadZip
    \/ LoadZipFails
    \/ NextParser
    \/ LoadMapped
    \/ LoadImage
    \/ LoadBlob
    \/ LoadBlobFails
    \/ LoadSave
    \/ PutSucceeds
    \/ PutFails
    \/ LoadSaved
    \/ LoadSaveFails
    \/ LoadFinish

SpecLoad == InitLoad /\ [][NextLoad]_vars

(***************************************************************************)
(* Two imports in a row on the same page: loadExcelFile is called again    *)
(* with another file once the first call is through, and no clearAllData   *)
(* in between.                                                             *)
(***************************************************************************)
\* the worksheet lists of the files imported in a row
ImportNameLists == {<<"B", "A">>, <<"A">>}

\* a worksheet's relationship file: none, drawing 1, drawing 2
ImportRelsChoices ==
    {<<>>,
     <<File("ok", <<RelDrawing(1)>>)>>,
     <<File("ok", <<RelPrinter, RelDrawing(2)>>)>>}

\* the files: each worksheet with or without a drawing, all media there;
\* and a file each for what can fail: a relationship file or an image that
\* cannot be read, a database that does not open, a workbook that is no
\* zip archive, a file SheetJS cannot read
ImportInputs ==
    UNION {{LoadInput(Workbook("xlsx", names, UsualIndex),
                      LoadPackage(names, sr, MediaPairs), TRUE, TRUE) :
               sr \in [1..Len(names) -> ImportRelsChoices]} :
           names \in ImportNameLists}
    \cup {LoadInput(Workbook("xlsx", <<"A">>, UsualIndex),
                    LoadPackage(<<"A">>, <<<<File("unreadable", <<>>)>>>>,
                                MediaPairs), TRUE, TRUE),
          LoadInput(Workbook("xlsx", <<"B", "A">>, UsualIndex),
                    LoadPackage(<<"B", "A">>, AllDrawn(<<"B", "A">>),
                                {<<ImageEntry(1), <<File("ok", <<>>)>>>>,
                                 <<PhotoEntry, <<File("unreadable", <<>>)>>>>}),
                    TRUE, TRUE),
          LoadInput(Workbook("xlsx", <<"A">>, UsualIndex),
                    LoadPackage(<<"A">>, AllDrawn(<<"A">>), MediaPairs),
                    TRUE, FALSE),
          LoadInput(Workbook("other", <<"A">>, UsualIndex), <<>>, TRUE, TRUE),
          LoadInput([kind |-> "garbage"], <<>>, TRUE, TRUE)}

InitImports ==
    /\ \E in \in ImportInputs :
        /\ excelFile = in.excelFile
        /\ zip = in.zip
        /\ enabled = in.enabled
        /\ opens = in.opens
    /\ version \in {"part_000", "part_001"}
    /\ pc = "idle"
    /\ sheets = <<>>
    /\ sheetPos = 0
    /\ drawingPath = Null
    /\ drawingXML = <<>>
    /\ mapping = <<>>
    /\ caught = FALSE
    /\ ret = <<>>
    /\ lookups = <<>>
    /\ writes = <<>>
    /\ first = <<>>
    /\ TransformIdle
    /\ store = <<>>
    /\ db = FALSE
    /\ saves = [c \in Callers |-> [pc |-> "idle"]]
    /\ requests = <<>>
    /\ puts = <<>>
    /\ lpc = "idle"
    /\ recipes = <<>>
    /\ hasImages = FALSE
    /\ loaded = <<>>
    /\ entryPos = 0
    /\ imagePos = 0
    /\ imageBlobs = <<>>
    /\ failures = <<>>
    /\ imported = <<>>
    /\ PageIdle

\* the first call is through and the page is given another file: what the
\* call left is noted, the generator and the store stay as they are, and
\* the next call starts with its own locals
Reimport ==
    /\ lpc = "done"
    /\ imported = <<>>
    /\ imported' = <<[store |-> store, value |-> loaded[1]]>>
    /\ \E in \in ImportInputs :
        /\ excelFile' = in.excelFile
        /\ zip' = in.zip
    /\ lpc' = "idle"
    /\ loaded' = <<>>
    /\ entryPos' = 0
    /\ imagePos' = 0
    /\ imageBlobs' = <<>>
    /\ failures' = <<>>
    /\ pc' = "idle"
    /\ sheets' = <<>>
    /\ sheetPos' = 0
    /\ drawingPath' = Null
    /\ drawingXML' = <<>>
    /\ mapping' = <<>>
    /\ caught' = FALSE
    /\ ret' = <<>>
    /\ lookups' = <<>>
    /\ writes' = <<>>
    /\ puts' = <<>>
    /\ UNCHANGED <<version, enabled, recipes, hasImages>>
    /\ UNCHANGED <<store, db, opens, saves, requests>>
    /\ UNCHANGED <<first, transformVars, pageVars>>

\* recipeGenerator.js line 429-437, imageStore.js 84-112, 286-289: what
\* hasRecipeImage(recipeName) resolves with
hasRecipeImage(recipeName) ==
    /\ enabled
    /\ db \/ opens
    /\ recipeName \in DOMAIN store
    /\ Len(store[recipeName].imageBlobs) > 0

NextImports == NextLoad \/ Reimport

SpecImports == InitImports /\ [][NextImports]_vars

(***************************************************************************)
(* Two calls of loadExcelFile on the same RecipeGenerator that overlap:    *)
(* the second is made while the first is suspended at an await of its      *)
(* image phase.  Both work on this.recipes and this.hasImages; each has    *)
(* its own position and file.  The second file is a workbook that is no    *)
(* zip archive, or a file SheetJS cannot read, so the second call's image  *)
(* phase ends at JSZip.loadAsync and needs no walk of its own.             *)
(***************************************************************************)
OverlapFiles ==
    {Workbook("other", names, UsualIndex) :
        names \in {<<"A">>, <<"B", "A">>, <<"B">>}}
    \cup {[kind |-> "garbage"]}

InitOverlap ==
    /\ \E in \in ImportInputs :
        /\ excelFile = in.excelFile
        /\ zip = in.zip
        /\ enabled = in.enabled
        /\ opens = in.opens
    /\ version \in {"part_000", "part_001"}
    /\ pc = "idle"
    /\ sheets = <<>>
    /\ sheetPos = 0
    /\ drawingPath = Null
    /\ drawingXML = <<>>
    /\ mapping = <<>>
    /\ caught = FALSE
    /\ ret = <<>>
    /\ lookups = <<>>
    /\ writes = <<>>
    /\ first = <<>>
    /\ TransformIdle
    /\ store = <<>>
    /\ db = FALSE
    /\ saves = [c \in Callers |-> [pc |-> "idle"]]
    /\ requests = <<>>
    /\ puts = <<>>
    /\ lpc = "idle"
    /\ recipes = <<>>
    /\ hasImages = FALSE
    /\ loaded = <<>>
    /\ entryPos = 0
    /\ imagePos = 0
    /\ imageBlobs = <<>>
    /\ failures = <<>>
    /\ imported = <<>>
    /\ lpc2 = "idle"
    /\ excelFile2 \in OverlapFiles
    /\ loaded2 = <<>>
    /\ ClearIdle
    /\ urls = <<>>
    /\ MimeIdle

\* the first call waits at an await of its image phase: for init(), for the
\* archive, for a read of the walk, for the bytes of an image, for saveImage
InImagePhase ==
    \/ lpc \in {"init", "zip", "blob", "saving"}
    \/ lpc = "mapping" /\ pc \in {"awaitWorkbook", "awaitRels", "awaitDrawing",
                                   "awaitDrawingRels"}

\* the first call is not in the middle of a stretch of code
Suspended == InImagePhase \/ lpc = "done"

\* what the second call leaves alone whatever it does
outsideSecond ==
    <<parserVars, first, transformVars, clearVars, urls, mimeVars,
      version, excelFile, enabled, lpc, loaded, loopVars, historyVars,
      excelFile2, store, opens, saves, requests, puts>>

\* return this.recipes, in the second call
Load2Return(rs) ==
    /\ loaded2' = <<[threw |-> FALSE, value |-> rs]>>
    /\ lpc2' = "done"

\* line 20-25: loadExcelFile(file2) is called while the first call waits
Load2Call ==
    /\ lpc2 = "idle"
    /\ InImagePhase
    /\ lpc2' = "arrayBuffer"
    /\ UNCHANGED <<recipes, hasImages, loaded2, db>>
    /\ UNCHANGED outsideSecond

\* line 25-27, 102-104: XLSX.read throws in the second call
Load2Throws ==
    /\ lpc2 = "arrayBuffer"
    /\ Suspended
    /\ excelFile2.kind \in {"unreadable", "garbage"}
    /\ loaded2' = <<[threw |-> TRUE, value |-> <<>>]>>
    /\ lpc2' = "done"
    /\ UNCHANGED <<recipes, hasImages, db>>
    /\ UNCHANGED outsideSecond

\* line 25-101, 132-138: phase 1 of the second call: this.recipes = [] and
\* the recipes of its file
Load2Read ==
    /\ lpc2 = "arrayBuffer"
    /\ Suspended
    /\ excelFile2.kind \notin {"unreadable", "garbage"}
    /\ recipes' = RecipeList(excelFile2)
    /\ IF enabled
       THEN lpc2' = "init" /\ UNCHANGED loaded2
       ELSE Load2Return(recipes')
    /\ UNCHANGED <<hasImages, db>>
    /\ UNCHANGED outsideSecond

\* line 138-142: init() resolves in the second call
Load2InitSucceeds ==
    /\ lpc2 = "init"
    /\ Suspended
    /\ opens
    /\ db' = TRUE
    /\ lpc2' = "zip"
    /\ UNCHANGED <<recipes, hasImages, loaded2>>
    /\ UNCHANGED outsideSecond

\* line 138, 93-101: init() rejects in the second call
Load2InitFails ==
    /\ lpc2 = "init"
    /\ Suspended
    /\ ~opens
    /\ hasImages' = FALSE
    /\ Load2Return(recipes)
    /\ UNCHANGED <<recipes, db>>
    /\ UNCHANGED outsideSecond

\* line 142, 93-101: the second file is no zip archive, JSZip.loadAsync
\* rejects
Load2ZipFails ==
    /\ lpc2 = "zip"
    /\ Suspended
    /\ excelFile2.kind # "xlsx"
    /\ hasImages' = FALSE
    /\ Load2Return(recipes)
    /\ UNCHANGED <<recipes, db>>
    /\ UNCHANGED outsideSecond

NextOverlap ==
    \/ NextLoad
    \/ Load2Call
    \/ Load2Throws
    \/ Load2Read
    \/ Load2InitSucceeds
    \/ Load2InitFails
    \/ Load2ZipFails

SpecOverlap == InitOverlap /\ [][NextOverlap]_vars

(***************************************************************************)
(* RecipeGenerator.clearAllData, on a page with an image store, after      *)
(* recipes were loaded, saved to localStorage and images stored.           *)
(***************************************************************************)
\* the keys saveToLocalStorage writes and clearLocalStorage removes
RecipeKeys == {"recipes", "recipes_timestamp"}

\* the stores an import leaves: no record, one, two
ClearStores ==
    {<<>>,
     Put(<<>>, PutValue("A", Array(<<Blob("d1", "image/png")>>), NoArgument)),
     Put(Put(<<>>, PutValue("A", Array(<<Blob("d1", "image/png"),
                                         Blob("d2", "image/jpeg")>>),
                            NoArgument)),
         PutValue("B", Array(<<Blob("d3", "image/png")>>), NoArgument))}

\* the recipe lists an import leaves
ClearRecipes ==
    {<<>>} \cup {RecipeList(Workbook("xlsx", names, UsualIndex)) :
                    names \in LoadNameLists}

InitClear ==
    /\ ParserIdle
    /\ TransformIdle
    /\ SecondIdle
    /\ MimeIdle
    /\ urls = <<>>
    /\ version = "part_001"
    /\ excelFile = NoFile
    /\ enabled = TRUE
    /\ lpc = "idle"
    /\ recipes \in ClearRecipes
    /\ hasImages \in BOOLEAN
    /\ loaded = <<>>
    /\ entryPos = 0
    /\ imagePos = 0
    /\ imageBlobs = <<>>
    /\ failures = <<>>
    /\ imported = <<>>
    /\ store \in ClearStores
    /\ opens \in BOOLEAN
    /\ db \in {FALSE, opens}
    /\ saves = [c \in Callers |-> [pc |-> "idle"]]
    /\ requests = <<>>
    /\ puts = <<>>
    /\ localStorage = {}
    /\ cpc = "idle"
    /\ clears \in BOOLEAN

\* what clearAllData and saveToLocalStorage leave alone
outsideClear ==
    <<parserVars, first, transformVars, secondVars, mimeVars, urls,
      version, excelFile, enabled, lpc, loaded, loopVars, historyVars,
      opens, saves, requests, puts, clears>>

\* recipeGenerator.js line 522-531: both keys are set, or setItem throws at
\* the first or at the second (the quota), which is caught
SaveToLocalStorage ==
    /\ cpc = "idle"
    /\ \E written \in {RecipeKeys, {"recipes"}, {}} :
           localStorage' = localStorage \cup written
    /\ UNCHANGED <<cpc, recipes, hasImages, store, db>>
    /\ UNCHANGED outsideClear

\* line 567-568: the end of clearAllData
ClearReturn ==
    /\ recipes' = <<>>
    /\ hasImages' = FALSE
    /\ cpc' = "done"

\* line 554-560, imageStore.js 315-323: clearAllData() is called,
\* clearLocalStorage removes the two keys, and clearAll goes on to its
\* clear request or awaits init()
ClearCall ==
    /\ cpc = "idle"
    /\ localStorage' = localStorage \ RecipeKeys
    /\ cpc' = IF db THEN "clear" ELSE "init"
    /\ UNCHANGED <<recipes, hasImages, store, db>>
    /\ UNCHANGED outsideClear

\* imageStore.js line 316-323: init() resolves, the clear request is made
ClearInitSucceeds ==
    /\ cpc = "init"
    /\ opens
    /\ db' = TRUE
    /\ cpc' = "clear"
    /\ UNCHANGED <<localStorage, recipes, hasImages, store>>
    /\ UNCHANGED outsideClear

\* imageStore.js line 316-318, recipeGenerator.js 559-568: init() rejects,
\* the catch block logs it
ClearInitFails ==
    /\ cpc = "init"
    /\ ~opens
    /\ ClearReturn
    /\ UNCHANGED <<localStorage, store, db>>
    /\ UNCHANGED outsideClear

\* imageStore.js line 325, recipeGenerator.js 567-568: the clear request
\* succeeds
ClearSucceeds ==
    /\ cpc = "clear"
    /\ clears
    /\ store' = <<>>
    /\ ClearReturn
    /\ UNCHANGED <<localStorage, db>>
    /\ UNCHANGED outsideClear

\* imageStore.js line 326, recipeGenerator.js 559-568: the clear request
\* fails, the catch block logs it
ClearFails ==
    /\ cpc = "clear"
    /\ ~clears
    /\ ClearReturn
    /\ UNCHANGED <<localStorage, store, db>>
    /\ UNCHANGED outsideClear

\* imageStore.js line 334-347: the result of the count request
getCount == Cardinality(DOMAIN store)

NextClear ==
    \/ SaveToLocalStorage
    \/ ClearCall
    \/ ClearInitSucceeds
    \/ ClearInitFails
    \/ ClearSucceeds
    \/ ClearFails

SpecClear == InitClear /\ [][NextClear]_vars

(***************************************************************************)
(* getFileExtension and getMimeType on their own, as extractAndSaveImages  *)
(* calls them on an image path.                                            *)
(***************************************************************************)
\* what a path begins with: a folder, a folder with a dot in its name, no
\* folder, a name that has an extension already
MimeStems ==
    {<<"xl", "/", "media", "/", "image", "1">>,
     <<"xl", "/", "media", ".old", "/", "IMG">>,
     <<"photo">>,
     <<"xl", "/", "media", "/", "image", "1", ".png">>,
     <<"xl", "/", "media", "/", "image", "1", ".jpg">>}

\* what it ends with: no extension, or one of the dot tokens
MimeEndings == {<<>>} \cup {<<p[1]>> : p \in DotTexts}

MimePaths == {stem \o ending : stem \in MimeStems, ending \in MimeEndings}

InitMime ==
    /\ ParserIdle
    /\ TransformIdle
    /\ StoreIdle
    /\ LoadIdle
    /\ SecondIdle
    /\ ClearIdle
    /\ urls = <<>>
    /\ givenPath \in MimePaths
    /\ mimeType = <<>>

\* recipeGenerator.js line 176-177: extension, then MIME type
MimeCall ==
    /\ mimeType = <<>>
    /\ mimeType' = <<getMimeType(getFileExtension(givenPath))>>
    /\ UNCHANGED <<givenPath, parserVars, first, transformVars, storeVars,
                   loadVars, secondVars, clearVars, urls>>

NextMime == MimeCall

SpecMime == InitMime /\ [][NextMime]_vars

(***************************************************************************)
(* What the package says, read off its entries without the parser.         *)
(***************************************************************************)
\* the entry a relative target "../x" of a part under xl/<dir>/ names
TargetEntry(target) == <<"xl", "/">> \o SubSeq(target, 3, Len(target))

Present(path)  == path \in DOMAIN zip
Readable(path) == Present(path) /\ zip[path].status # "unreadable"
Sound(path)    == Present(path) /\ zip[path].status = "ok"

ElemsOf(path, tag) ==
    IF Present(path) THEN SelectSeq(zip[path].elems, LAMBDA e : e.tag = tag) ELSE <<>>

\* the worksheets the manifest lists
ManifestSheets == ElemsOf(WorkbookPath, "sheet")

NamesDrawing(rel) == rel.Target # Null /\ \E i \in DOMAIN rel.Target : rel.Target[i] = "drawing"

NamesImage(rel) ==
    /\ rel.Target # Null
    /\ \/ \E i \in DOMAIN rel.Target : rel.Target[i] = "image"
       \/ \E i \in DOMAIN rel.Type : rel.Type[i] = "image"

\* the drawing relationships of worksheet k's relationship file, in order
DrawingRelsOf(k) == SelectSeq(ElemsOf(SheetRelsEntry(k), "Relationship"), NamesDrawing)

\* the drawing of worksheet k: the target of its first drawing relationship
DrawingOf(k) == TargetEntry(DrawingRelsOf(k)[1].Target)

\* the position of the last "/" of a path: the end of its directory
LastSlash(path) ==
    CHOOSE i \in DOMAIN path :
        path[i] = "/" /\ \A j \in DOMAIN path : path[j] = "/" => j <= i

\* the relationship file of a part <dir>/<file>: <dir>/_rels/<file>.rels
RelsEntryOf(drawing) ==
    SubSeq(drawing, 1, LastSlash(drawing)) \o <<"_rels", "/">>
        \o SubSeq(drawing, LastSlash(drawing) + 1, Len(drawing)) \o <<".rels">>

\* the image relationships and the picture elements of a drawing
ImageRelsOf(drawing) == SelectSeq(ElemsOf(RelsEntryOf(drawing), "Relationship"), NamesImage)
PicsOf(drawing)      == ElemsOf(drawing, "xdr:pic")

\* worksheet k was the last to assign its sequence, in the state right after
JustRecorded(k) ==
    /\ pc = "loop"
    /\ sheetPos = k + 1
    /\ writes # <<>>
    /\ writes[Len(writes)].pos = k

LastDrawing == writes[Len(writes)].drawing

Identity ==
    [rotation |-> [n |-> 0, d |-> 1], flipH |-> FALSE, flipV |-> FALSE,
     crop |-> [left |-> [n |-> 0, d |-> 1], top |-> [n |-> 0, d |-> 1],
               right |-> [n |-> 0, d |-> 1], bottom |-> [n |-> 0, d |-> 1]]]

IsNumber(x) == x = NaN \/ (DOMAIN x = {"n", "d"} /\ x.n \in Int /\ x.d \in Nat \ {0})

CompleteTransform(t) ==
    /\ DOMAIN t = {"rotation", "flipH", "flipV", "crop"}
    /\ IsNumber(t.rotation)
    /\ t.flipH \in BOOLEAN
    /\ t.flipV \in BOOLEAN
    /\ DOMAIN t.crop = {"left", "top", "right", "bottom"}
    /\ \A e \in DOMAIN t.crop : IsNumber(t.crop[e])

NoEmptyList(m) == \A name \in DOMAIN m : Len(m[name]) > 0

(***************************************************************************)
(* C3: in every mapping, also the one returned after a failure part-way,   *)
(* every key present maps to a non-empty sequence.                         *)
(***************************************************************************)
\* C3: no name is ever present with an empty sequence, in the mapping under
\* construction and in the mapping returned
C3_NoEmptySequence ==
    /\ NoEmptyList(mapping)
    /\ ret # <<>> => NoEmptyList(ret[1].value)

\* a mapping returned after a failure, holding an earlier worksheet's images,
\* of a package in which some worksheet's drawing has no image relationship
C3_Witness ==
    /\ pc = "done"
    /\ caught
    /\ DOMAIN ret[1].value # {}

C3_WitnessNoImages ==
    /\ pc = "loop"
    /\ sheetPos = 2
    /\ Readable(SheetRelsEntry(1))
    /\ DrawingRelsOf(1) # <<>>
    /\ Readable(DrawingOf(1))
    /\ Readable(RelsEntryOf(DrawingOf(1)))
    /\ ImageRelsOf(DrawingOf(1)) = <<>>
    /\ mapping = <<>>

(***************************************************************************)
(* C4: every entry of every sequence carries a complete transform record;  *)
(* a path at an index at or beyond the number of picture elements of the   *)
(* drawing gets exactly the identity transform.                            *)
(***************************************************************************)
\* C4: every transform is complete, and the entries past the number of
\* picture elements carry the identity transform
C4_CompleteTransforms ==
    /\ \A name \in DOMAIN mapping : \A i \in DOMAIN mapping[name] :
           CompleteTransform(mapping[name][i].transform)
    /\ \A k \in DOMAIN sheets :
           JustRecorded(k) =>
               \A i \in DOMAIN mapping[sheets[k].name] :
                   i > Len(PicsOf(LastDrawing)) =>
                       mapping[sheets[k].name][i].transform = Identity

\* a worksheet recorded with more image paths than its drawing has pictures
C4_Witness ==
    \E k \in DOMAIN sheets :
        /\ JustRecorded(k)
        /\ Len(mapping[sheets[k].name]) > Len(PicsOf(LastDrawing))
        /\ Len(PicsOf(LastDrawing)) > 0

(***************************************************************************)
(* C1: the transform paired with the image path at index i is the          *)
(* transform of the picture element that shows that image, for any order   *)
(* of the relationship entries.  Stated for drawings in which every        *)
(* picture shows the image of exactly one image relationship and every     *)
(* image relationship is shown by exactly one picture.                     *)
(***************************************************************************)
\* the picture shows the image at the package path
Shows(pic, path, drawing) ==
    \E i \in DOMAIN ImageRelsOf(drawing) :
        /\ ImageRelsOf(drawing)[i].Id = pic.blipFill[1].embed
        /\ TargetEntry(ImageRelsOf(drawing)[i].Target) = path

OneToOne(drawing) ==
    LET rels == ImageRelsOf(drawing)
        pics == PicsOf(drawing)
    IN  /\ Len(rels) = Len(pics)
        /\ \A i, j \in DOMAIN rels : rels[i].Id = rels[j].Id => i = j
        /\ \A i, j \in DOMAIN rels : rels[i].Target = rels[j].Target => i = j
        /\ \A i \in DOMAIN rels : \E j \in DOMAIN pics :
               pics[j].blipFill[1].embed = rels[i].Id
        /\ \A i, j \in DOMAIN pics :
               pics[i].blipFill[1].embed = pics[j].blipFill[1].embed => i = j

\* C1: in a recorded sequence the transform at index i is the transform of
\* every picture that shows the image at index i
C1_TransformOfShownPicture ==
    \A k \in DOMAIN sheets :
        (JustRecorded(k) /\ OneToOne(LastDrawing)) =>
            \A i \in DOMAIN mapping[sheets[k].name] :
                \A j \in DOMAIN PicsOf(LastDrawing) :
                    Shows(PicsOf(LastDrawing)[j],
                          mapping[sheets[k].name][i].path, LastDrawing) =>
                        mapping[sheets[k].name][i].transform
                            = extractSingleImageTransform(PicsOf(LastDrawing)[j])

\* the same pairing where the relationship file lists the image
\* relationships in the order of the pictures
SameOrder(drawing) ==
    \A i \in DOMAIN PicsOf(drawing) :
        PicsOf(drawing)[i].blipFill[1].embed = ImageRelsOf(drawing)[i].Id

C1_InOrderOnly ==
    \A k \in DOMAIN sheets :
        (JustRecorded(k) /\ OneToOne(LastDrawing) /\ SameOrder(LastDrawing)) =>
            \A i \in DOMAIN mapping[sheets[k].name] :
                mapping[sheets[k].name][i].transform
                    = extractSingleImageTransform(PicsOf(LastDrawing)[i])

(***************************************************************************)
(* C2: a worksheet whose relationship file, drawing and drawing            *)
(* relationship file all resolve, with at least one qualifying image       *)
(* relationship, is in the returned mapping with a sequence as long as the *)
(* number of qualifying image relationships.  Stated for worksheets whose  *)
(* name no other worksheet bears.                                          *)
(***************************************************************************)
Resolves(k) ==
    /\ Sound(WorkbookPath)
    /\ Sound(SheetRelsEntry(k))
    /\ DrawingRelsOf(k) # <<>>
    /\ Sound(DrawingOf(k))
    /\ Sound(RelsEntryOf(DrawingOf(k)))

UniqueName(k) ==
    \A j \in DOMAIN ManifestSheets :
        ManifestSheets[j].name = ManifestSheets[k].name => j = k

\* C2: on return, every resolving worksheet with image relationships is in
\* the mapping with one entry per qualifying image relationship
C2_LengthIsImageRelCount ==
    pc = "done" =>
        \A k \in DOMAIN ManifestSheets :
            (Resolves(k) /\ UniqueName(k) /\ Len(ImageRelsOf(DrawingOf(k))) >= 1) =>
                /\ ManifestSheets[k].name \in DOMAIN ret[1].value
                /\ Len(ret[1].value[ManifestSheets[k].name])
                       = Len(ImageRelsOf(DrawingOf(k)))

\* the same, for calls whose catch block did not run and drawings kept in
\* a directory named drawings
C2_UnlessAborted ==
    (pc = "done" /\ ~caught) =>
        \A k \in DOMAIN ManifestSheets :
            (Resolves(k) /\ UniqueName(k) /\ Len(ImageRelsOf(DrawingOf(k))) >= 1
                 /\ Includes(DrawingOf(k), <<"/", "drawing", "s", "/">>)) =>
                /\ ManifestSheets[k].name \in DOMAIN ret[1].value
                /\ Len(ret[1].value[ManifestSheets[k].name])
                       = Len(ImageRelsOf(DrawingOf(k)))

(***************************************************************************)
(* C5: a worksheet whose relationship file is present but malformed or     *)
(* fails to be read is absent from the mapping, and the pass goes on:      *)
(* every worksheet after it is still visited.                              *)
(***************************************************************************)
Visited(k) == \E i \in DOMAIN lookups : lookups[i] = SheetRelsEntry(k)

Recorded(k) == \E i \in DOMAIN writes : writes[i].pos = k

BrokenRels(k) ==
    /\ Present(SheetRelsEntry(k))
    /\ zip[SheetRelsEntry(k)].status \in {"malformed", "unreadable"}

\* C5: on return, a visited worksheet with a broken relationship file is not
\* recorded and every worksheet after it has been visited
C5_BrokenWorksheetIsLocal ==
    pc = "done" =>
        \A k \in DOMAIN sheets :
            (Visited(k) /\ BrokenRels(k)) =>
                /\ ~Recorded(k)
                /\ \A j \in DOMAIN sheets : j > k => Visited(j)

(***************************************************************************)
(* C6: a worksheet whose relationship file, drawing entry or drawing       *)
(* relationship file is absent from the package, or whose relationship     *)
(* file names no drawing, is not recorded, raises no error, and the walk   *)
(* goes on to the next worksheet.                                          *)
(***************************************************************************)
\* the first absent link of worksheet k's chain, the links before it readable
AbsentLink(k) ==
    \/ ~Present(SheetRelsEntry(k))
    \/ (Readable(SheetRelsEntry(k)) /\ DrawingRelsOf(k) = <<>>)
    \/ (Readable(SheetRelsEntry(k)) /\ DrawingRelsOf(k) # <<>>
            /\ ~Present(DrawingOf(k)))
    \/ (Readable(SheetRelsEntry(k)) /\ DrawingRelsOf(k) # <<>>
            /\ Readable(DrawingOf(k))
            /\ ~Present(RelsEntryOf(DrawingOf(k))))

\* C6: a visited worksheet with an absent link is not recorded, the call
\* does not end at it, and the next worksheet is visited
C6_AbsenceIsSilent ==
    \A k \in DOMAIN sheets :
        (Visited(k) /\ AbsentLink(k)) =>
            /\ ~Recorded(k)
            /\ (pc = "done" => sheetPos > k)
            /\ ((pc = "done" /\ k < Len(sheets)) => Visited(k + 1))

\* a worksheet with an absent link was passed and the next one was visited
C6_Witness ==
    \E k \in DOMAIN sheets :
        /\ AbsentLink(k)
        /\ Present(SheetRelsEntry(k))
        /\ k < Len(sheets)
        /\ Recorded(k + 1)
        /\ ~caught
        /\ pc = "done"

(***************************************************************************)
(* C7: with the manifest absent, unreadable or unparseable the call does   *)
(* not throw and returns an empty mapping.                                 *)
(***************************************************************************)
ManifestFails == ~Sound(WorkbookPath)

\* C7: on return, a manifest that is absent, unreadable or ill-formed gives
\* a normal return of the empty mapping
C7_ManifestFailureGivesEmpty ==
    (pc = "done" /\ ManifestFails) =>
        /\ ret[1].threw = FALSE
        /\ ret[1].value = <<>>

\* the same, for a manifest that is absent or cannot be read
C7_AbsentOrUnreadable ==
    (pc = "done" /\ ~Readable(WorkbookPath)) =>
        /\ ret[1].threw = FALSE
        /\ ret[1].value = <<>>

(***************************************************************************)
(* C8: an aborted build is surfaced to the caller as a failure and returns *)
(* no partial mapping.                                                     *)
(***************************************************************************)
\* C8: on return after the catch block ran, the caller gets a failure and
\* no entries
C8_AbortIsSurfaced ==
    (pc = "done" /\ caught) =>
        /\ ret[1].threw = TRUE
        /\ ret[1].value = <<>>

(***************************************************************************)
(* C9: for the worksheet at position n of the manifest the relationship    *)
(* file consulted is xl/worksheets/_rels/sheet<n>.xml.rels, whatever its   *)
(* sheetId, and its images are recorded under the name at position n.      *)
(***************************************************************************)
IsSheetRelsPath(path) == Len(path) > 3 /\ path[3] = "worksheets"

\* C9: the k-th relationship file looked up is sheet<k>.xml.rels, and the
\* worksheet at position k is recorded under the k-th name of the manifest
\* with the images of the drawing that file names
C9_PositionNamesRelsFile ==
    /\ \A k \in DOMAIN sheets :
           (k < sheetPos \/ (k = sheetPos /\ pc # "loop")) =>
               SelectSeq(lookups, IsSheetRelsPath)[k] = SheetRelsEntry(k)
    /\ Len(SelectSeq(lookups, IsSheetRelsPath)) <= Len(sheets)
    /\ \A k \in DOMAIN sheets :
           JustRecorded(k) =>
               /\ LastDrawing = DrawingOf(k)
               /\ ManifestSheets[k].name \in DOMAIN mapping
               /\ [i \in DOMAIN mapping[ManifestSheets[k].name] |->
                       mapping[ManifestSheets[k].name][i].path]
                  = [i \in DOMAIN ImageRelsOf(DrawingOf(k)) |->
                       TargetEntry(ImageRelsOf(DrawingOf(k))[i].Target)]

\* a worksheet whose sheetId differs from its position has been recorded
C9_Witness ==
    \E k \in DOMAIN sheets :
        /\ JustRecorded(k)
        /\ sheets[k].sheetId # k
        /\ k > 1

(***************************************************************************)
(* C10: extractDrawingPath gives the path of the first relationship, in    *)
(* document order, whose target contains 'drawing'; a relationship whose   *)
(* target does not contain it is never chosen; null when none qualifies.   *)
(***************************************************************************)
\* C10: in the step that handles the worksheet's relationship text: with no
\* drawing relationship nothing is looked up and the worksheet is passed;
\* otherwise the entry looked up is the one the first of them names
C10_FirstDrawingRelationship ==
    [][(pc = "awaitRels" /\ pc' # "done") =>
          IF DrawingRelsOf(sheetPos) = <<>>
          THEN lookups' = lookups /\ sheetPos' = sheetPos + 1
          ELSE /\ lookups' = Append(lookups, DrawingOf(sheetPos))
               /\ pc' = "awaitDrawing" => drawingPath' = DrawingOf(sheetPos)]_vars

\* a relationship file with a non-drawing relationship first and two
\* different drawing relationships after it has been handled
C10_Witness ==
    /\ pc = "awaitDrawing"
    /\ Len(DrawingRelsOf(sheetPos)) >= 2
    /\ DrawingRelsOf(sheetPos)[1].Target # DrawingRelsOf(sheetPos)[2].Target
    /\ ~NamesDrawing(ElemsOf(SheetRelsEntry(sheetPos), "Relationship")[1])

(***************************************************************************)
(* C11: for a drawing at <drawingDir>/<drawingFile> the relationship file  *)
(* consulted is <drawingDir>/_rels/<drawingFile>.rels, whatever the        *)
(* directory is called.                                                    *)
(***************************************************************************)
\* the lookup at position i is the one for a drawing's relationship file:
\* the third lookup of a worksheet, after its relationship file and drawing
IsDrawingRelsLookup(i) ==
    /\ i >= 3
    /\ IsSheetRelsPath(lookups[i - 2])
    /\ ~IsSheetRelsPath(lookups[i - 1])
    /\ ~IsSheetRelsPath(lookups[i])

\* C11: every lookup of a drawing's relationship file names the entry
\* <dir>/_rels/<file>.rels of the drawing looked up just before
C11_RelsBesideDrawing ==
    \A i \in DOMAIN lookups :
        IsDrawingRelsLookup(i) => lookups[i] = RelsEntryOf(lookups[i - 1])

\* the same, for drawings in a directory named drawings
C11_UnderDrawingsOnly ==
    \A i \in DOMAIN lookups :
        (IsDrawingRelsLookup(i) /\ Includes(lookups[i - 1], <<"/", "drawing", "s", "/">>)) =>
            lookups[i] = RelsEntryOf(lookups[i - 1])

(***************************************************************************)
(* C12: of two worksheets sharing a name that both resolve to images, the  *)
(* mapping holds the sequence of the later one; if only the earlier one    *)
(* resolves to images, its sequence is kept.                               *)
(***************************************************************************)
\* worksheet k resolves to at least one image
HasImages(k) == Resolves(k) /\ Len(ImageRelsOf(DrawingOf(k))) >= 1

\* the sequence worksheet k gives on its own
SequenceOf(k) ==
    LET rels == ImageRelsOf(DrawingOf(k))
    IN  Combine([i \in DOMAIN rels |-> TargetEntry(rels[i].Target)],
                extractImageTransforms(zip[DrawingOf(k)], Len(rels)))

\* worksheet k's chain can be followed to an image relationship, through
\* well-formed or ill-formed files
ReachesImages(k) ==
    /\ Readable(SheetRelsEntry(k))
    /\ DrawingRelsOf(k) # <<>>
    /\ Readable(DrawingOf(k))
    /\ Readable(RelsEntryOf(DrawingOf(k)))
    /\ Len(ImageRelsOf(DrawingOf(k))) >= 1

\* k is the last worksheet of its name that resolves to images, and no
\* later one of that name reaches any
LastWithImages(k) ==
    /\ HasImages(k)
    /\ \A j \in DOMAIN ManifestSheets :
           (j > k /\ ManifestSheets[j].name = ManifestSheets[k].name) =>
               ~ReachesImages(j)

SharesName(k) ==
    \E j \in DOMAIN ManifestSheets :
        j # k /\ ManifestSheets[j].name = ManifestSheets[k].name

\* C12: on return, a name shared by several worksheets maps to the sequence
\* of the last of them that resolves to images
C12_LastWriteWins ==
    pc = "done" =>
        \A k \in DOMAIN ManifestSheets :
            (SharesName(k) /\ LastWithImages(k)) =>
                /\ ManifestSheets[k].name \in DOMAIN ret[1].value
                /\ ret[1].value[ManifestSheets[k].name] = SequenceOf(k)

\* the same, for calls whose catch block did not run
C12_UnlessAborted ==
    (pc = "done" /\ ~caught) =>
        \A k \in DOMAIN ManifestSheets :
            (SharesName(k) /\ LastWithImages(k)) =>
                /\ ManifestSheets[k].name \in DOMAIN ret[1].value
                /\ ret[1].value[ManifestSheets[k].name] = SequenceOf(k)

\* two worksheets of one name with different drawings were both recorded
C12_BothRecorded ==
    /\ pc = "done"
    /\ ~caught
    /\ \E k, j \in DOMAIN ManifestSheets :
           /\ k < j
           /\ ManifestSheets[j].name = ManifestSheets[k].name
           /\ HasImages(k) /\ HasImages(j)
           /\ DrawingOf(k) # DrawingOf(j)

(***************************************************************************)
(* C13: two calls on the same package give identical mappings: the same    *)
(* keys in the same order, the same paths and transforms; nothing left by  *)
(* the first call reaches the second.                                      *)
(***************************************************************************)
\* C13: when the second call has returned, its result and the order of its
\* keys are those of the first call
C13_SameResultTwice ==
    (pc = "done" /\ first # <<>>) =>
        /\ ret[1] = first[1].ret
        /\ Keys = first[1].keys

\* a second call has returned a mapping of two names
C13_Witness ==
    /\ pc = "done"
    /\ first # <<>>
    /\ Len(Keys) = 2
    /\ DOMAIN ret[1].value = {"A", "B"}

\* a second call has returned after its catch block ran, with an entry
C13_WitnessAborted ==
    /\ pc = "done"
    /\ first # <<>>
    /\ caught
    /\ DOMAIN ret[1].value # {}

(***************************************************************************)
(* The attributes of a picture element, read off the element.              *)
(***************************************************************************)
\* a DOM call on the picture throws
Faulty(pic) ==
    \/ pic.spPr = Throws
    \/ pic.blipFill = Throws
    \/ (pic.spPr # <<>> /\ pic.spPr[1].xfrm = Throws)
    \/ (pic.blipFill # <<>> /\ pic.blipFill[1].srcRect = Throws)

\* the attributes of <a:xfrm> and of <a:srcRect> that can be read:
\* name -> raw value
XfrmAttrs(pic) ==
    IF pic.spPr \notin {<<>>, Throws} /\ pic.spPr[1].xfrm \notin {<<>>, Throws}
    THEN pic.spPr[1].xfrm[1] ELSE <<>>

SrcRectAttrs(pic) ==
    IF pic.blipFill \notin {<<>>, Throws}
           /\ pic.blipFill[1].srcRect \notin {<<>>, Throws}
    THEN pic.blipFill[1].srcRect[1] ELSE <<>>

\* every numeric attribute present is the decimal text of an integer
IntegerAttrs(pic) ==
    /\ "rot" \in DOMAIN XfrmAttrs(pic) => "int" \in DOMAIN XfrmAttrs(pic).rot
    /\ \A a \in DOMAIN SrcRectAttrs(pic) : "int" \in DOMAIN SrcRectAttrs(pic)[a]

Zero == [n |-> 0, d |-> 1]

\* the number x is a / b
IsRatio(x, a, b) == x # NaN /\ x.n * b = a * x.d

\* the reference: an absent attribute leaves the identity value
RefNumber(x, attrs, a, unit) ==
    IF a \in DOMAIN attrs THEN IsRatio(x, attrs[a].int, unit) ELSE x = Zero

RefFlag(f, attrs, a) == f = (a \in DOMAIN attrs /\ attrs[a] = "1")

AgreesWithReference(pic, t) ==
    /\ RefNumber(t.rotation, XfrmAttrs(pic), "rot", 60000)
    /\ RefFlag(t.flipH, XfrmAttrs(pic), "flipH")
    /\ RefFlag(t.flipV, XfrmAttrs(pic), "flipV")
    /\ RefNumber(t.crop.left, SrcRectAttrs(pic), "l", 1000)
    /\ RefNumber(t.crop.top, SrcRectAttrs(pic), "t", 1000)
    /\ RefNumber(t.crop.right, SrcRectAttrs(pic), "r", 1000)
    /\ RefNumber(t.crop.bottom, SrcRectAttrs(pic), "b", 1000)

\* rot=5400000 with l=10000 and nothing else: 90 degrees, 10 percent off the left
QuarterTurnCropped ==
    [rotation |-> [n |-> 90, d |-> 1], flipH |-> FALSE, flipV |-> FALSE,
     crop |-> [left |-> [n |-> 10, d |-> 1], top |-> Zero,
               right |-> Zero, bottom |-> Zero]]

(***************************************************************************)
(* C14: extractSingleImageTransform agrees with the reference: degrees =   *)
(* rot / 60000, a flip is true exactly for the value "1", a crop edge =    *)
(* attribute / 1000, an absent attribute leaves the identity value.        *)
(***************************************************************************)
\* C14: every transform returned for a picture whose DOM calls succeed and
\* whose numeric attributes are integers agrees with the reference, and
\* rot=5400000 with l=10000 gives rotation 90 and crop.left 10
C14_AgreesWithReference ==
    transforms # <<>> =>
        \A i \in DOMAIN transforms[1] :
            LET pic == picXML.elems[i]
            IN  /\ (~Faulty(pic) /\ IntegerAttrs(pic)) =>
                       AgreesWithReference(pic, transforms[1][i])
                /\ pic = PicRotatedCropped =>
                       transforms[1][i] = QuarterTurnCropped

\* the transform of the picture with rot=5400000 and l=10000 was returned
C14_Witness ==
    /\ transforms # <<>>
    /\ \E i \in DOMAIN transforms[1] : picXML.elems[i] = PicRotatedCropped

\* a transform with all four crop edges and one with both flips were returned
C14_WitnessAllEdges ==
    /\ transforms # <<>>
    /\ \E i \in DOMAIN transforms[1] :
           /\ DOMAIN SrcRectAttrs(picXML.elems[i]) = {"l", "t", "r", "b"}
           /\ DOMAIN XfrmAttrs(picXML.elems[i]) = {"flipH", "flipV"}
           /\ transforms[1][i].flipH # transforms[1][i].flipV

(***************************************************************************)
(* C15: for every integer value of the raw attributes the rotation lies in *)
(* [0, 360) and every crop edge in [0, 100].                               *)
(***************************************************************************)
InRange(x, lo, hi, closed) ==
    /\ x # NaN
    /\ lo * x.d <= x.n
    /\ IF closed THEN x.n <= hi * x.d ELSE x.n < hi * x.d

\* C15: every transform returned for a picture with integer attributes has
\* its rotation in [0, 360) and its crop edges in [0, 100]
C15_InRange ==
    transforms # <<>> =>
        \A i \in DOMAIN transforms[1] :
            IntegerAttrs(picXML.elems[i]) =>
                /\ InRange(transforms[1][i].rotation, 0, 360, FALSE)
                /\ \A e \in {"left", "top", "right", "bottom"} :
                       InRange(transforms[1][i].crop[e], 0, 100, TRUE)

\* the same, for attributes that are in range themselves
RawInRange(pic) ==
    /\ "rot" \in DOMAIN XfrmAttrs(pic) =>
           (XfrmAttrs(pic).rot.int >= 0 /\ XfrmAttrs(pic).rot.int < 21600000)
    /\ \A a \in DOMAIN SrcRectAttrs(pic) :
           (SrcRectAttrs(pic)[a].int >= 0 /\ SrcRectAttrs(pic)[a].int <= 100000)

C15_InRangeForRawInRange ==
    transforms # <<>> =>
        \A i \in DOMAIN transforms[1] :
            (IntegerAttrs(picXML.elems[i]) /\ RawInRange(picXML.elems[i])) =>
                /\ InRange(transforms[1][i].rotation, 0, 360, FALSE)
                /\ \A e \in {"left", "top", "right", "bottom"} :
                       InRange(transforms[1][i].crop[e], 0, 100, TRUE)

FaultyAtShape(pic) ==
    \/ pic.spPr = Throws
    \/ (pic.spPr # <<>> /\ pic.spPr[1].xfrm = Throws)

C16_IdentityIfNothingRead ==
    transforms # <<>> =>
        \A i \in DOMAIN transforms[1] :
            IF FaultyAtShape(picXML.elems[i])
            THEN transforms[1][i] = Identity
            ELSE Faulty(picXML.elems[i]) \/
                 transforms[1][i] = extractSingleImageTransform(picXML.elems[i])

(***************************************************************************)
(* C17: extractImagePaths gives one path for exactly the relationships     *)
(* whose target or declared type contains 'image' (none for a relationship *)
(* without a target), in document order.                                   *)
(***************************************************************************)
\* the drawing relationship file of worksheet k has just been handled
PassedDrawingRels(k) ==
    /\ pc = "loop"
    /\ sheetPos = k + 1
    /\ IsDrawingRelsLookup(Len(lookups))
    /\ Readable(lookups[Len(lookups)])

\* the positions of the qualifying relationships of a list
Qualifying(rels) == {i \in DOMAIN rels : NamesImage(rels[i])}

\* the j-th smallest member of a set of positions
Nth(S, j) == CHOOSE i \in S : Cardinality({q \in S : q <= i}) = j

\* C17: right after a drawing's relationship file was handled, the worksheet
\* is recorded exactly if some relationship qualifies, and then its paths are
\* those of the qualifying relationships, one each, in document order
C17_ExactlyTheImageRelationships ==
    \A k \in DOMAIN sheets :
        PassedDrawingRels(k) =>
            LET rels == ElemsOf(lookups[Len(lookups)], "Relationship")
                name == sheets[k].name
            IN  IF Qualifying(rels) = {}
                THEN ~Recorded(k)
                ELSE /\ JustRecorded(k)
                     /\ Len(mapping[name]) = Cardinality(Qualifying(rels))
                     /\ \A j \in DOMAIN mapping[name] :
                            mapping[name][j].path
                                = TargetEntry(rels[Nth(Qualifying(rels), j)].Target)

\* a list of a relationship that does not qualify followed by one that
\* qualifies by its type only has been handled
C17_Witness ==
    \E k \in DOMAIN sheets :
        /\ PassedDrawingRels(k)
        /\ LET rels == ElemsOf(lookups[Len(lookups)], "Relationship")
           IN  /\ Len(rels) = 2
               /\ ~NamesImage(rels[1])
               /\ NamesImage(rels[2])
               /\ \A i \in DOMAIN rels[2].Target : rels[2].Target[i] # "image"

\* a list of an image-typed relationship without a target followed by an
\* image target without a type has been handled
C17_WitnessUntargeted ==
    \E k \in DOMAIN sheets :
        /\ PassedDrawingRels(k)
        /\ ElemsOf(lookups[Len(lookups)], "Relationship")
               = <<RelUntargetedImage, RelUntypedImage>>
        /\ Len(mapping[sheets[k].name]) = 1

(***************************************************************************)
(* C18: a worksheet whose image relationships all point to media entries   *)
(* the package does not hold is absent from the mapping, and every path in *)
(* the mapping names an entry of the package.                              *)
(***************************************************************************)
\* every image relationship of worksheet k's drawing names a missing entry
AllMediaMissing(k) ==
    /\ HasImages(k)
    /\ \A i \in DOMAIN ImageRelsOf(DrawingOf(k)) :
           ~Present(TargetEntry(ImageRelsOf(DrawingOf(k))[i].Target))

\* C18: on return, every path in the mapping names an entry of the package,
\* and no worksheet whose media are all missing has been recorded
C18_OnlyExistingMedia ==
    pc = "done" =>
        /\ \A name \in DOMAIN ret[1].value :
               \A i \in DOMAIN ret[1].value[name] :
                   Present(ret[1].value[name][i].path)
        /\ \A k \in DOMAIN ManifestSheets : AllMediaMissing(k) => ~Recorded(k)

\* the same, for packages that hold every media entry their drawings name
AllMediaPresent ==
    \A k \in DOMAIN ManifestSheets :
        ReachesImages(k) =>
            \A i \in DOMAIN ImageRelsOf(DrawingOf(k)) :
                Present(TargetEntry(ImageRelsOf(DrawingOf(k))[i].Target))

C18_IfNoMediaMissing ==
    (pc = "done" /\ AllMediaPresent) =>
        \A name \in DOMAIN ret[1].value :
            \A i \in DOMAIN ret[1].value[name] :
                Present(ret[1].value[name][i].path)

(***************************************************************************)
(* C20: saveImage for a name that already has a record replaces the record *)
(* wholesale, and of two overlapping calls for one name the record left is *)
(* one of the two writes in full.                                          *)
(***************************************************************************)
\* the images a call was given, as a list
GivenBlobs(a) == IF a.imageBlob.isArray THEN a.imageBlob.items ELSE <<a.imageBlob.value>>

\* the transforms a call was given, as a list
GivenTransforms(a) ==
    IF a.transforms = NoArgument THEN <<>>
    ELSE IF a.transforms.isArray THEN a.transforms.items
    ELSE <<a.transforms.value>>

\* the record is what the call with arguments a wrote: its images, and its
\* transforms followed by a default for every image beyond them
IsWriteOf(rec, a) ==
    /\ rec.recipeName = a.recipeName
    /\ rec.imageBlobs = GivenBlobs(a)
    /\ Len(rec.transforms) =
           (IF Len(GivenTransforms(a)) < Len(GivenBlobs(a))
            THEN Len(GivenBlobs(a)) ELSE Len(GivenTransforms(a)))
    /\ \A i \in 1..Len(rec.transforms) :
           rec.transforms[i] = IF i <= Len(GivenTransforms(a))
                               THEN GivenTransforms(a)[i]
                               ELSE getDefaultTransform

\* the caller whose write to the name was carried out last
LastWriter(n) ==
    LET at == {i \in 1..Len(puts) : saves[puts[i]].args.recipeName = n}
    IN  puts[CHOOSE i \in at : \A j \in at : j <= i]

\* C20: the record of a name is, field for field, what the write carried out
\* last for that name gave: its images and its transform list and nothing of
\* an earlier record, also when the calls overlapped
C20_LatestWriteInFull ==
    \A n \in DOMAIN store : IsWriteOf(store[n], saves[LastWriter(n)].args)

\* both callers wrote the same name, the second while the first's call was
\* still in progress, with other images and other transforms
C20_Witness ==
    /\ Len(puts) = 2
    /\ saves[1].args.recipeName = saves[2].args.recipeName
    /\ saves[1].pc = "resolved" /\ saves[2].pc = "resolved"
    /\ saves[1].args.during = {2} \/ saves[2].args.during = {1}
    /\ GivenBlobs(saves[1].args) # GivenBlobs(saves[2].args)
    /\ saves[1].args.transforms # saves[2].args.transforms

\* the same, one call after the other: the name had a record when the second
\* call was made
C20_WitnessInTurn ==
    /\ Len(puts) = 2
    /\ saves[1].args.recipeName = saves[2].args.recipeName
    /\ saves[1].args.during = {} /\ saves[2].args.during = {}
    /\ Len(GivenBlobs(saves[puts[1]].args)) > Len(GivenBlobs(saves[puts[2]].args))

(***************************************************************************)
(* C19: after loadExcelFile the recipe list has no recipe named            *)
(* Inhaltsverzeichnis or Vorlage, while createSheetImageMapping still      *)
(* records the worksheets of these names when they have a drawing with     *)
(* images.                                                                 *)
(***************************************************************************)
NotRecipes == {"Inhaltsverzeichnis", "Vorlage"}

\* loadExcelFile returned the recipe list
Loaded == loaded # <<>> /\ ~loaded[1].threw

\* the table of contents names the recipe: in a row from the third on, in a
\* column whose first row is not blank
Listed(name) ==
    /\ "Inhaltsverzeichnis" \in DOMAIN excelFile.Sheets
    /\ LET data == excelFile.Sheets["Inhaltsverzeichnis"]
       IN  \E row \in 3..Len(data) : \E col \in 1..Len(data[row]) :
               data[row][col].text = name /\ data[1][col].text # ""

\* C19: the recipe list loadExcelFile returns has no recipe named
\* Inhaltsverzeichnis or Vorlage
C19_NeitherNameInList ==
    Loaded => \A i \in 1..Len(loaded[1].value) :
                  loaded[1].value[i].name \notin NotRecipes

\* no recipe made from a worksheet has one of the two names
C19_NoSheetOfTheNames ==
    Loaded => \A i \in 1..Len(loaded[1].value) :
                  loaded[1].value[i].name \in NotRecipes =>
                      /\ loaded[1].value[i].isPlaceholder
                      /\ Listed(loaded[1].value[i].name)

\* where the table of contents lists neither name, the list has neither
C19_UnlessListed ==
    (Loaded /\ \A n \in NotRecipes : ~Listed(n)) =>
        \A i \in 1..Len(loaded[1].value) :
            loaded[1].value[i].name \notin NotRecipes

\* the mapping of a walk that was not cut short has the worksheets of the
\* two names whose drawing has images
C19_MappingKeepsSheets ==
    (pc = "done" /\ ~caught) =>
        \A k \in DOMAIN ManifestSheets :
            (ManifestSheets[k].name \in NotRecipes /\ HasImages(k)) =>
                ManifestSheets[k].name \in DOMAIN ret[1].value

\* a worksheet Vorlage with images was recorded by the later parser, and the
\* list returned has no recipe of the name
C19_Witness ==
    /\ Loaded
    /\ pc = "done"
    /\ version = "part_001"
    /\ "Vorlage" \in DOMAIN ret[1].value
    /\ \A i \in 1..Len(loaded[1].value) :
           loaded[1].value[i].name \notin NotRecipes

\* a recipe named Vorlage in the list returned, the workbook having a
\* worksheet of that name
C19_TemplateListed ==
    /\ Loaded
    /\ \E i \in 1..Len(excelFile.SheetNames) : excelFile.SheetNames[i] = "Vorlage"
    /\ \E i \in 1..Len(loaded[1].value) : loaded[1].value[i].name = "Vorlage"

(***************************************************************************)
(* C21.  Failures of the image phase and the outcome of loadExcelFile.     *)
(***************************************************************************)
\* the recipes without what the image phase writes on them
CellData(rs) ==
    [i \in 1..Len(rs) |-> [rs[i] EXCEPT !.hasImage = FALSE, !.imageCount = <<>>]]

\* phase 1 fails: the bytes cannot be read, or SheetJS cannot read them
CellDataFails == excelFile.kind \in {"unreadable", "garbage"}

\* extractAndSaveImages rejects: the database does not open, or the file
\* is no zip archive
ImagePhaseThrows == enabled /\ (~opens \/ excelFile.kind # "xlsx")

\* C21: once loadExcelFile is through, it rejected only if the cell-data
\* phase failed; otherwise it resolved with the whole recipe list of the
\* cell data, whatever failed in the image phase (archive, mapping, store
\* initialisation, a read or a write in the loop), and hasImages is false
\* where the image phase threw
C21_ImportSurvivesImagePhase ==
    lpc = "done" =>
        /\ loaded[1].threw <=> CellDataFails
        /\ ~loaded[1].threw =>
               /\ CellData(loaded[1].value) = RecipeList(excelFile)
               /\ ImagePhaseThrows => ~hasImages

\* the database did not open, or the file was no archive, and the call
\* resolved with recipes
C21_Witness ==
    /\ lpc = "done"
    /\ ~CellDataFails
    /\ ImagePhaseThrows
    /\ ~loaded[1].threw
    /\ Len(loaded[1].value) > 0

\* a read or a write failed in the loop, and the call resolved with recipes
C21_WitnessLoop ==
    /\ lpc = "done"
    /\ failures # <<>>
    /\ ~loaded[1].threw
    /\ Len(loaded[1].value) > 0

\* the mapping was cut short by a failed read, and the call resolved
C21_WitnessMapping ==
    /\ lpc = "done"
    /\ caught
    /\ ~loaded[1].threw
    /\ Len(loaded[1].value) > 0

(***************************************************************************)
(* C22.  What the store holds for the worksheets of the mapping.           *)
(***************************************************************************)
\* the paths the mapping lists for the worksheet name
MappedPaths(name) ==
    [i \in 1..Len(ret[1].value[name]) |->
        IF version = "part_000" THEN ret[1].value[name][i]
        ELSE ret[1].value[name][i].path]

\* the drawing of the assignment that gave the name its entry
MappedDrawing(name) ==
    LET ws   == {i \in DOMAIN writes : sheets[writes[i].pos].name = name}
        last == CHOOSE i \in ws : \A j \in ws : j <= i
    IN  writes[last].drawing

\* the transforms the mapping pairs with the images of the name; the
\* mapping of the earlier parser has none, there it is what the later
\* parser pairs on the same package
MappedTransforms(name) ==
    IF version = "part_001"
    THEN [i \in 1..Len(ret[1].value[name]) |-> ret[1].value[name][i].transform]
    ELSE LET paths == MappedPaths(name)
             pairs == Combine(paths,
                              extractImageTransforms(zip[MappedDrawing(name)],
                                                     Len(paths)))
         IN  [i \in 1..Len(paths) |-> pairs[i].transform]

\* the positions of the mapped images whose media entry is in the package
Existing(name) ==
    {i \in 1..Len(MappedPaths(name)) : MappedPaths(name)[i] \in DOMAIN zip}

\* the elements of a sequence at the positions given, in order
RECURSIVE Pick(_, _, _)
Pick(seq, positions, i) ==
    IF i > Len(seq) THEN <<>>
    ELSE (IF i \in positions THEN <<seq[i]>> ELSE <<>>)
         \o Pick(seq, positions, i + 1)

\* the image phase went through without a failure being caught
ImagePhaseClean ==
    /\ lpc = "done"
    /\ pc = "done"
    /\ ~loaded[1].threw
    /\ hasImages
    /\ ~caught
    /\ failures = <<>>

\* the blob of a media entry, as extractAndSaveImages makes it
BlobOf(imagePath) == Blob(imagePath, getMimeType(getFileExtension(imagePath)))

\* C22: after an import without failures, every worksheet of the mapping
\* with a media entry in the package has a store record under its name
\* that holds the images in mapping order and, at index i, the transform
\* the mapping paired with image i
C22_StoredAsMapped ==
    ImagePhaseClean =>
        \A name \in DOMAIN ret[1].value :
            Existing(name) # {} =>
                /\ name \in DOMAIN store
                /\ store[name].imageBlobs =
                       Pick([i \in 1..Len(MappedPaths(name)) |->
                                BlobOf(MappedPaths(name)[i])],
                            Existing(name), 1)
                /\ store[name].transforms =
                       Pick(MappedTransforms(name), Existing(name), 1)

\* the images are stored in mapping order where a record was written
C22_ImagesInMappingOrder ==
    ImagePhaseClean =>
        \A name \in DOMAIN ret[1].value :
            name \in DOMAIN store =>
                store[name].imageBlobs =
                    Pick([i \in 1..Len(MappedPaths(name)) |->
                             BlobOf(MappedPaths(name)[i])],
                         Existing(name), 1)

\* every transform in the store is the default: saveImage is called
\* without transforms
C22_OnlyDefaultsStored ==
    \A name \in DOMAIN store :
        \A i \in 1..Len(store[name].transforms) :
            store[name].transforms[i] = getDefaultTransform

\* with the later parser the store stays empty
C22_NothingStoredLater == version = "part_001" => store = <<>>

\* a record was written for a worksheet whose picture is rotated
C22_RotatedStored ==
    /\ ImagePhaseClean
    /\ \E name \in DOMAIN ret[1].value :
           /\ name \in DOMAIN store
           /\ \E i \in Existing(name) :
                  MappedTransforms(name)[i] # getDefaultTransform

(***************************************************************************)
(* C23.  The MIME type of an image path.                                   *)
(***************************************************************************)
\* the text after the last '.' of the path, token by token from the end;
\* <<>> for a path without a dot
RECURSIVE AfterLastDot(_, _)
AfterLastDot(p, i) ==
    IF i = 0 THEN <<>>
    ELSE IF \E d \in DotTexts : d[1] = p[i]
         THEN <<(CHOOSE d \in DotTexts : d[1] = p[i])[2]>> \o SubSeq(p, i + 1, Len(p))
         ELSE AfterLastDot(p, i - 1)

\* the lower-case spellings of the extensions the table names
LowerSpellings ==
    [png  |-> {"png", "PNG", "Png"}, jpg |-> {"jpg", "JPG"},
     jpeg |-> {"jpeg", "JPEG"}, gif |-> {"gif", "GIF"},
     bmp  |-> {"bmp", "BMP"}, webp |-> {"webp", "WebP"}]

\* the type the table gives an extension text, image/png for every other
TypeByTable(ext) ==
    IF Len(ext) # 1 THEN "image/png"
    ELSE CASE ext[1] \in LowerSpellings.png  -> "image/png"
           [] ext[1] \in LowerSpellings.jpg  -> "image/jpeg"
           [] ext[1] \in LowerSpellings.jpeg -> "image/jpeg"
           [] ext[1] \in LowerSpellings.gif  -> "image/gif"
           [] ext[1] \in LowerSpellings.bmp  -> "image/bmp"
           [] ext[1] \in LowerSpellings.webp -> "image/webp"
           [] OTHER -> "image/png"

\* C23: the MIME type given for a path is the one the table has for the
\* text after the last '.', whatever its case, and image/png for every
\* other extension and for a path without a '.'
C23_MimeByExtension ==
    mimeType # <<>> =>
        mimeType[1] = TypeByTable(AfterLastDot(givenPath, Len(givenPath)))

\* the extensions that are names of what an object inherits
InheritedNames == {"constructor", "Constructor", "__proto__"}

\* the same, the extensions that name an inherited property set aside
C23_UnlessInherited ==
    (/\ mimeType # <<>>
     /\ LET ext == AfterLastDot(givenPath, Len(givenPath))
        IN  ~(Len(ext) = 1 /\ ext[1] \in InheritedNames)) =>
        mimeType[1] = TypeByTable(AfterLastDot(givenPath, Len(givenPath)))

\* an upper-case jpg after an earlier png gave image/jpeg
C23_WitnessLastDot ==
    /\ mimeType = <<"image/jpeg">>
    /\ givenPath = <<"xl", "/", "media", "/", "image", "1", ".png", ".JPG">>

\* the extension constructor gave something else than a MIME type
C23_WitnessInherited ==
    /\ mimeType # <<>>
    /\ mimeType[1] = "function Object() { [native code] }"

(***************************************************************************)
(* C24.  The order of the lookups and reads of one walk.                   *)
(***************************************************************************)
\* the positions where createSheetImageMapping waits for a read
Awaits == {"awaitWorkbook", "awaitRels", "awaitDrawing", "awaitDrawingRels"}

\* the entry whose text the walk is waiting for
Awaited ==
    CASE pc = "awaitWorkbook"    -> WorkbookPath
      [] pc = "awaitRels"        -> SheetRelsEntry(sheetPos)
      [] pc = "awaitDrawing"     -> drawingPath
      [] pc = "awaitDrawingRels" -> lookups[Len(lookups)]

\* the relationship path is named after the drawing: the drawing's path
\* with .rels at its end, in the drawing's folder or in _rels below it
NamedAfter(relsPath, drawing) ==
    relsPath = drawing \o <<".rels">> \/ relsPath = RelsEntryOf(drawing)

\* the worksheet relationship files looked up, in the order of the lookups
SheetRelsLookups == SelectSeq(lookups, IsSheetRelsPath)

\* C24: the walk is sequential.  The read waited for is the one of the
\* last lookup and every entry found by an earlier lookup was read to its
\* end before the next lookup; the worksheet relationship files are looked
\* up in manifest order; a drawing is looked up right after its worksheet's
\* relationship file was read, the drawing's relationship file right after
\* the drawing was read and named after that drawing, so both come before
\* the lookup of the next worksheet; the drawing text held while the
\* relationship file is read is that drawing's
C24_SequentialWalk ==
    /\ pc \in Awaits =>
           /\ lookups # <<>>
           /\ Awaited = lookups[Len(lookups)]
           /\ Present(Awaited)
    /\ \A i \in DOMAIN lookups :
           (i < Len(lookups) /\ Present(lookups[i])) => Readable(lookups[i])
    /\ Len(SheetRelsLookups) <= Len(sheets)
    /\ \A j \in DOMAIN SheetRelsLookups : SheetRelsLookups[j] = SheetRelsEntry(j)
    /\ \A i \in DOMAIN lookups :
           /\ i = 1 => lookups[i] = WorkbookPath
           /\ (i > 1 /\ ~IsSheetRelsPath(lookups[i])) =>
                  \/ /\ IsSheetRelsPath(lookups[i - 1])
                     /\ Readable(lookups[i - 1])
                  \/ /\ i >= 3
                     /\ IsSheetRelsPath(lookups[i - 2])
                     /\ Readable(lookups[i - 1])
                     /\ NamedAfter(lookups[i], lookups[i - 1])
    /\ pc = "awaitDrawingRels" =>
           /\ drawingXML = <<zip[drawingPath]>>
           /\ lookups[Len(lookups) - 1] = drawingPath
           /\ NamedAfter(Awaited, drawingPath)

\* two worksheets, each with its drawing and the drawing's relationship
\* file read, the second drawing another than the first
C24_Witness ==
    /\ pc = "done"
    /\ ~caught
    /\ Len(lookups) = 7
    /\ IsSheetRelsPath(lookups[2])
    /\ IsSheetRelsPath(lookups[5])
    /\ lookups[3] # lookups[6]
    /\ Readable(lookups[4])
    /\ Readable(lookups[7])

\* a read is waited for while two worksheets are behind
C24_WitnessWaiting ==
    /\ pc = "awaitDrawingRels"
    /\ sheetPos = 2
    /\ Len(lookups) = 7

(***************************************************************************)
(* C25.  hasImage and imageCount of the recipes after the import.          *)
(***************************************************************************)
\* the image phase ran to its end
ImagePhaseDone ==
    /\ lpc = "done"
    /\ pc = "done"
    /\ ~loaded[1].threw
    /\ hasImages

\* reading or storing the images of the name failed
Failed(name) == \E i \in DOMAIN failures : failures[i] = name

\* the images of the name were to be stored and nothing failed: the name
\* is in the mapping, one of its media entries is in the package
ToBeStored(name) ==
    /\ name \in DOMAIN ret[1].value
    /\ Existing(name) # {}
    /\ ~Failed(name)

\* what C25 says of the recipe r
MarkedAsStored(r) ==
    /\ r.hasImage <=> ToBeStored(r.name)
    /\ r.hasImage =>
           /\ r.imageCount = <<Cardinality(Existing(r.name))>>
           /\ r.name \in DOMAIN store
           /\ store[r.name].imageBlobs =
                  Pick([i \in 1..Len(MappedPaths(r.name)) |->
                           BlobOf(MappedPaths(r.name)[i])],
                       Existing(r.name), 1)

C25_PlainPathsOnly ==
    (ImagePhaseDone /\ version = "part_000") =>
        \A i \in 1..Len(loaded[1].value) : MarkedAsStored(loaded[1].value[i])

\* with the {path, transform} entries no recipe ever has hasImage
C25_NeverMarkedLater ==
    version = "part_001" =>
        \A i \in 1..Len(recipes) : ~recipes[i].hasImage

\* the earlier parser: a recipe with two images stored and counted
C25_WitnessPlain ==
    /\ ImagePhaseDone
    /\ version = "part_000"
    /\ \E i \in 1..Len(loaded[1].value) :
           /\ loaded[1].value[i].hasImage
           /\ loaded[1].value[i].imageCount = <<2>>

\* the later parser: a recipe whose images were to be stored, not marked
C25_WitnessLater ==
    /\ ImagePhaseDone
    /\ version = "part_001"
    /\ \E i \in 1..Len(loaded[1].value) :
           /\ ToBeStored(loaded[1].value[i].name)
           /\ ~loaded[1].value[i].hasImage

(***************************************************************************)
(* C26.  A failure at one entry of the mapping.                            *)
(***************************************************************************)
\* the images of the name are in the store as the mapping lists them
StoredAsListed(name) ==
    /\ name \in DOMAIN store
    /\ store[name].imageBlobs =
           Pick([i \in 1..Len(MappedPaths(name)) |-> BlobOf(MappedPaths(name)[i])],
                Existing(name), 1)

\* C26: a recipe whose images could not be read or stored has hasImage =
\* false; extractAndSaveImages does not reject for it, so loadExcelFile
\* ends with hasImages = true; and every later entry of the mapping whose
\* own images did not fail is read and stored
C26_FailureSkipsOneEntry ==
    /\ \A i \in DOMAIN failures : \A k \in 1..Len(recipes) :
           recipes[k].name = failures[i] => ~recipes[k].hasImage
    /\ (lpc = "done" /\ failures # <<>>) => (~loaded[1].threw /\ hasImages)
    /\ (lpc = "done" /\ failures # <<>>) =>
           \A i \in DOMAIN Entries : \A j \in DOMAIN Entries :
               (/\ i < j
                /\ Failed(Entries[i].recipeName)
                /\ ToBeStored(Entries[j].recipeName)) =>
                   StoredAsListed(Entries[j].recipeName)

\* the first entry failed, the second is in the store
C26_Witness ==
    /\ lpc = "done"
    /\ Len(Entries) >= 2
    /\ Failed(Entries[1].recipeName)
    /\ ToBeStored(Entries[2].recipeName)
    /\ StoredAsListed(Entries[2].recipeName)

\* the same, the failure being an image that could not be read
C26_WitnessRead ==
    /\ C26_Witness
    /\ Entries[1].recipeName \notin DOMAIN store
    /\ \E i \in Existing(Entries[1].recipeName) :
           ~Readable(MappedPaths(Entries[1].recipeName)[i])

(***************************************************************************)
(* C27.  Transforms per image, in the record and in what is read back.     *)
(***************************************************************************)
\* the blob a data URL was made of
BlobBehind(dataUrl) == [data |-> dataUrl[4], type |-> dataUrl[2]]

\* C27: a record in the store has at least as many transforms as images,
\* the transforms given to the call that wrote it at their positions and
\* the identity transform at every image position beyond them; and
\* getAllImageDataURLs gives one entry per image of the record it read,
\* entry i with image i and the record's transform i
C27_TransformPerImage ==
    /\ \A n \in DOMAIN store :
           LET given == GivenTransforms(saves[LastWriter(n)].args)
           IN  /\ Len(store[n].transforms) >= Len(store[n].imageBlobs)
               /\ \A i \in 1..Len(store[n].imageBlobs) :
                      store[n].transforms[i] =
                          IF i <= Len(given) THEN given[i]
                          ELSE getDefaultTransform
    /\ (urls # <<>> /\ ~urls[1].threw) =>
           LET images == IF urls[1].result = <<>> THEN <<>>
                         ELSE urls[1].result[1].imageBlobs
           IN  /\ Len(urls[1].value) = Len(images)
               /\ \A i \in 1..Len(images) :
                      /\ BlobBehind(urls[1].value[i].dataUrl) = images[i]
                      /\ urls[1].value[i].transform =
                             urls[1].result[1].transforms[i]

\* two images written with one transform, read back as two entries, the
\* second with the identity transform
C27_Witness ==
    /\ urls # <<>>
    /\ ~urls[1].threw
    /\ urls[1].result # <<>>
    /\ Len(urls[1].result[1].imageBlobs) = 2
    /\ Len(GivenTransforms(saves[LastWriter(urls[1].recipeName)].args)) = 1
    /\ Len(urls[1].value) = 2
    /\ urls[1].value[1].transform = Mirrored
    /\ urls[1].value[2].transform = getDefaultTransform

\* a record with more transforms than images, read back with one entry
C27_WitnessLonger ==
    /\ urls # <<>>
    /\ urls[1].result # <<>>
    /\ Len(urls[1].result[1].transforms) = 3
    /\ Len(urls[1].value) = 1

(***************************************************************************)
(* C28.  What clearAllData leaves.                                         *)
(***************************************************************************)
\* C28: after clearAllData the recipe list is empty, hasImages is false,
\* localStorage has neither of the two keys and the image store holds no
\* record, also when clearing the store reported an error
C28_AllDataDeleted ==
    cpc = "done" =>
        /\ recipes = <<>>
        /\ ~hasImages
        /\ localStorage \cap {"recipes", "recipes_timestamp"} = {}
        /\ getCount = 0

\* the same without the image store
C28_GeneratorAndLocalStorage ==
    cpc = "done" =>
        /\ recipes = <<>>
        /\ ~hasImages
        /\ localStorage \cap {"recipes", "recipes_timestamp"} = {}

\* the store is empty where clearing it reported no error
C28_StoreUnlessError == (cpc = "done" /\ (db \/ opens) /\ clears) => getCount = 0

\* recipes, keys and records were there, clearing went through
C28_WitnessCleared ==
    /\ cpc = "done"
    /\ clears
    /\ db
    /\ getCount = 0

\* clearing the store reported an error and the records are still there
C28_WitnessError ==
    /\ cpc = "done"
    /\ db
    /\ ~clears
    /\ getCount = 2
    /\ recipes = <<>>

(***************************************************************************)
(* C29.  The store over two imports without clearAllData in between.       *)
(***************************************************************************)
\* the names of the mapping of the import under way, once it has arrived
OwnNames == IF pc = "done" THEN DOMAIN ret[1].value ELSE {}

\* the store as the imports before this one left it
StoreBefore == IF imported = <<>> THEN <<>> ELSE imported[1].store

\* C29: an import writes or replaces only the records of the names of its
\* own mapping and deletes none: every record the earlier import left is
\* still there, unchanged unless the name is in the mapping of the import
\* under way, and every other record is of a name of that mapping
C29_ImportsOnlyAddOwnNames ==
    /\ \A n \in DOMAIN StoreBefore :
           /\ n \in DOMAIN store
           /\ n \notin OwnNames => store[n] = StoreBefore[n]
    /\ \A n \in DOMAIN store : n \in DOMAIN StoreBefore \/ n \in OwnNames

\* after the second import a worksheet that had images in the first and
\* has none in the second still has the first import's record, so
\* hasRecipeImage of its name is true while its recipe has hasImage false
C29_Witness ==
    /\ lpc = "done"
    /\ imported # <<>>
    /\ pc = "done"
    /\ ~loaded[1].threw
    /\ hasImages
    /\ \E i \in 1..Len(loaded[1].value) :
           LET r == loaded[1].value[i]
           IN  /\ r.name \in DOMAIN StoreBefore
               /\ r.name \notin OwnNames
               /\ store[r.name] = StoreBefore[r.name]
               /\ \E k \in 1..Len(imported[1].value.value) :
                      /\ imported[1].value.value[k].name = r.name
                      /\ imported[1].value.value[k].hasImage
               /\ ~r.hasImage
               /\ hasRecipeImage(r.name)

\* the second import replaced the record the first left for the name
C29_WitnessReplaced ==
    /\ lpc = "done"
    /\ imported # <<>>
    /\ \E n \in DOMAIN StoreBefore : store[n] # StoreBefore[n]

(***************************************************************************)
(* C30.  Two overlapping calls of loadExcelFile.                           *)
(***************************************************************************)
\* the first call resolved with the recipe list of its own file
FirstGotOwnList ==
    (lpc = "done" /\ ~loaded[1].threw) =>
        CellData(loaded[1].value) = RecipeList(excelFile)

\* the second call resolved with the recipe list of its own file, which
\* has no images: no recipe of it is marked
SecondGotOwnList ==
    (lpc2 = "done" /\ ~loaded2[1].threw) =>
        loaded2[1].value = RecipeList(excelFile2)

\* C30: with two overlapping calls each call resolves with the recipe list
\* of its own file, and the image phase of the first call sets hasImage
\* and imageCount on no recipe of the second call's file
C30_EachCallItsOwnFile ==
    /\ FirstGotOwnList
    /\ SecondGotOwnList
    /\ (lpc2 \notin {"idle", "arrayBuffer"}
        /\ excelFile2.kind \notin {"unreadable", "garbage"}) =>
           \A i \in 1..Len(recipes) :
               ~recipes[i].hasImage /\ recipes[i].imageCount = <<>>

\* the first call resolved with the list of the second call's file, another
\* list than that of its own
C30_WitnessOtherList ==
    /\ lpc = "done"
    /\ ~loaded[1].threw
    /\ lpc2 # "idle"
    /\ excelFile2.kind = "other"
    /\ CellData(loaded[1].value) = RecipeList(excelFile2)
    /\ RecipeList(excelFile2) # RecipeList(excelFile)

\* the image phase of the first call marked a recipe of the second file
C30_WitnessMarkedAcross ==
    /\ excelFile2.kind = "other"
    /\ lpc2 \notin {"idle", "arrayBuffer"}
    /\ CellData(recipes) = RecipeList(excelFile2)
    /\ \E i \in 1..Len(recipes) : recipes[i].hasImage

\* without a second call the first resolves with its own list
C30_AloneOwnList == lpc2 = "idle" => FirstGotOwnList

====
